---- MODULE Spec2Model ----
(***************************************************************************)
(* A model of the Octra web client: the key and signature functions of     *)
(* src/lib/crypto.ts, the request builders of src/hooks/use-wallet-data.ts,*)
(* src/app/components/dashboard/sidebar.tsx and lib/api.ts, and the        *)
(* multi-recipient send of src/app/components/dashboard/send-dialog.tsx.   *)
(*                                                                         *)
(* Byte strings are abstract: [len, val] where val names the content.      *)
(* Ed25519 and SHA-256 are ideal (injective, unforgeable); Base64 and      *)
(* UTF-8 encoding keep what makes them lossy.                              *)
(*                                                                         *)
(* SpecCrypto calls the functions of lib/crypto.ts on bounded inputs;      *)
(* SpecSetup is the WalletSetup screen; SpecOps calls the wallet           *)
(* operations one at a time; Spec is the send dialog, whose                *)
(* sendTransaction calls run in parallel batches and go on after the       *)
(* dialog is closed; SpecProxy is the POST handler of app/api/proxy with   *)
(* its retry loop, SpecProxyLive the same with every fetch settling;       *)
(* SpecSidebar is the sidebar with its dialogs and its handlers running    *)
(* side by side.                                                           *)
(***************************************************************************)
EXTENDS Integers, Sequences, FiniteSets, TLC

VARIABLES
  call,        \* the last call of a function of lib/crypto.ts and its outcome
  wallet,      \* WalletContext: the connected wallet, or NoWallet
  storage,     \* localStorage 'octraWallet': the saved item, or NoItem
  nonce,       \* useWalletBalance().nonce as last fetched
  balance,     \* useWalletBalance().publicBalance as last fetched, in micro-units
  encBalance,  \* useEncryptedBalance() as last fetched: public and encrypted, micro-units
  requests,    \* the requests posted to /api/proxy and not yet answered
  op,          \* the hook, sidebar or lib/api operation in progress, or NoOp
  ui,          \* the loading flags of the hooks and the sidebar, the sidebar's message,
               \* and the state of WalletSetup: error, isConnecting, newWallet
  dialog,      \* SendDialog: step, recipients, progress, results
  run,         \* the running handleConfirm: its locals and captured render
  sends,       \* the sendTransaction calls made by handleConfirm, by recipient
  proxy,       \* the POST handler of /api/proxy serving one request
  sidebar      \* Sidebar: the open dialog, claimId, pendingTransfers, and the handlers
               \* that are running, when they may run side by side

vars ==
  <<call, wallet, storage, nonce, balance, encBalance, requests, op, ui, dialog, run, sends,
    proxy, sidebar>>

----------------------------------------------------------------------------
(* Bounds of the model.                                                    *)

MaxKeyId == 2       \* distinct contents of a key of a given length
MaxMsgLen == 2      \* length of a message given to signMessage
MaxNonce == 1       \* the wallet nonce the server reports
MaxNonceArg == 1    \* the _nonce a caller passes to sendTransaction
MaxTime == 2        \* clock readings (Date.now), in seconds
MaxRecipients == 6  \* recipients of one multi-recipient send
MaxRunning == 2     \* handlers of the sidebar running side by side

(* Constants of the program.                                               *)
MU_FACTOR == 1000000
BATCH_SIZE == 5

----------------------------------------------------------------------------
(* Outcomes of a call: a value, or a thrown Error with its message.        *)

Ok(v) == [thrown |-> FALSE, value |-> v, error |-> ""]
Throw(e) == [thrown |-> TRUE, value |-> FALSE, error |-> e]

(* Byte strings. val = [tag, id, msg] names the content: raw input bytes,  *)
(* or the output of a primitive applied to named inputs.                   *)
Bytes(n, tag, id, msg) == [len |-> n, val |-> [tag |-> tag, id |-> id, msg |-> msg]]
Raw(n, id) == Bytes(n, "raw", id, <<>>)

(* A Base64 string. wf: it matches the Base64 grammar. slack: the unused   *)
(* low bits of the last character before the padding; decoding drops them,*)
(* so strings that differ only in slack decode to the same bytes.          *)
B64(wf, bytes, slack) == [len |-> bytes.len, val |-> bytes.val, wf |-> wf, slack |-> slack]
B64Length(s) == 4 * ((s.len + 2) \div 3)
HasSlack(n) == n % 3 # 0

decodeBase64(s) ==
  IF ~s.wf THEN Throw("invalid encoding")
  ELSE Ok([len |-> s.len, val |-> s.val])

encodeBase64(b) == B64(TRUE, b, 0)

(* TextEncoder.encode: UTF-8, an unpaired surrogate becomes U+FFFD.        *)
LoneSurrogates == {"\\uD800", "\\uD801"}
TextEncode(m) ==
  [i \in 1..Len(m) |-> IF m[i] \in LoneSurrogates THEN "\\uFFFD" ELSE m[i]]

(* tweetnacl sign.keyPair.fromSeed: the seed must be 32 bytes.  The secret *)
(* key is the seed followed by the public key, so it names the seed.       *)
keyPairFromSeed(seed) ==
  IF seed.len # 32 THEN Throw("bad seed size")
  ELSE Ok([publicKey |-> Bytes(32, "pk", seed.val.id, <<>>),
           secretKey |-> Bytes(64, "sk", seed.val.id, <<seed.val.tag>> \o seed.val.msg)])

(* tweetnacl sign.detached: the signature of msgBytes under the seed.      *)
signDetached(msgBytes, secretKey) ==
  IF secretKey.len # 64 THEN Throw("bad secret key size")
  ELSE Ok(Bytes(64, "sig", secretKey.val.id, msgBytes))

(* tweetnacl sign.detached.verify: sizes are checked first and throw.      *)
signDetachedVerify(msgBytes, sig, publicKey) ==
  IF sig.len # 64 THEN Throw("bad signature size")
  ELSE IF publicKey.len # 32 THEN Throw("bad public key size")
  ELSE Ok(/\ sig.val.tag = "sig"
          /\ publicKey.val.tag = "pk"
          /\ sig.val.id = publicKey.val.id
          /\ sig.val.msg = msgBytes)

(* SHA-256, ideal: the digest names its input.                             *)
Sha256(b) ==
  Bytes(32, "sha256", b.val.id, <<b.val.tag, ToString(b.len)>> \o b.val.msg)

----------------------------------------------------------------------------
(* src/lib/crypto.ts                                                       *)

(* validatePrivateKey without the length test of line 36.                  *)
validatePrivateKeyAnyLength(privateKeyB64) ==
  IF decodeBase64(privateKeyB64).thrown THEN Throw("Invalid private key") ELSE Ok(TRUE)

validatePrivateKey(privateKeyB64) ==
  LET decodedKey == decodeBase64(privateKeyB64) IN
  IF decodedKey.thrown THEN Throw("Invalid private key")
  ELSE IF decodedKey.value.len # 32 /\ decodedKey.value.len # 64
       THEN Throw("Invalid private key")
       ELSE Ok(TRUE)

(* getKeyPair of lines 51-60: validate, decode, fromSeed.                  *)
getKeyPair(privateKeyB64) ==
  LET valid == validatePrivateKey(privateKeyB64) IN
  IF valid.thrown THEN Throw("Failed to generate key pair")
  ELSE LET keyPair == keyPairFromSeed(decodeBase64(privateKeyB64).value) IN
       IF keyPair.thrown THEN Throw("Failed to generate key pair") ELSE keyPair

(* getKeyPair of lines 308-311: decode, fromSeed.                          *)
getKeyPairUnvalidated(privateKeyB64) ==
  LET decodedKey == decodeBase64(privateKeyB64) IN
  IF decodedKey.thrown THEN decodedKey ELSE keyPairFromSeed(decodedKey.value)

derivePublicKey(privateKeyB64) ==
  LET keyPair == getKeyPair(privateKeyB64) IN
  IF keyPair.thrown THEN Throw("Failed to derive public key")
  ELSE Ok(encodeBase64(keyPair.value.publicKey))

deriveAddress(privateKeyB64) ==
  LET keyPair == getKeyPair(privateKeyB64) IN
  IF keyPair.thrown THEN Throw("Failed to derive address")
  ELSE Ok([prefix |-> "oct", hash |-> Sha256(keyPair.value.publicKey)])

signMessage(message, privateKeyB64) ==
  LET keyPair == getKeyPair(privateKeyB64) IN
  IF keyPair.thrown THEN Throw("Failed to sign message")
  ELSE LET signature == signDetached(TextEncode(message), keyPair.value.secretKey) IN
       IF signature.thrown THEN Throw("Failed to sign message")
       ELSE Ok(encodeBase64(signature.value))

verifySignature(message, signatureB64, publicKeyB64) ==
  LET messageBytes == TextEncode(message)
      signature == decodeBase64(signatureB64)
      publicKey == decodeBase64(publicKeyB64)
  IN IF signature.thrown \/ publicKey.thrown THEN Throw("Failed to verify signature")
     ELSE LET verified == signDetachedVerify(messageBytes, signature.value, publicKey.value) IN
          IF verified.thrown THEN Throw("Failed to verify signature") ELSE verified

----------------------------------------------------------------------------
(* Text.  A string whose characters matter is the sequence of them.        *)

StartsWith(str, prefix) ==
  Len(str) >= Len(prefix) /\ SubSeq(str, 1, Len(prefix)) = prefix
Slice(str, start) == SubSeq(str, start + 1, Len(str))
Repeat(x, n) == [i \in 1..n |-> x]
Min(a, b) == IF a < b THEN a ELSE b
LeadingCount(seq, x) ==
  IF \A i \in 1..Len(seq) : seq[i] = x THEN Len(seq)
  ELSE (CHOOSE i \in 1..Len(seq) : seq[i] # x /\ \A j \in 1..(i - 1) : seq[j] = x) - 1

(* bs58 (base-x over the Bitcoin alphabet).  A byte string is here the     *)
(* sequence of its bytes.  encode and decode carry the number from one     *)
(* base to the other digit by digit; leading zero bytes are written as     *)
(* leading "1"s and read back from them.                                   *)
ALPHABET ==
  << "1", "2", "3", "4", "5", "6", "7", "8", "9", "A", "B", "C", "D", "E", "F",
     "G", "H", "J", "K", "L", "M", "N", "P", "Q", "R", "S", "T", "U", "V", "W",
     "X", "Y", "Z", "a", "b", "c", "d", "e", "f", "g", "h", "i", "j", "k", "m",
     "n", "o", "p", "q", "r", "s", "t", "u", "v", "w", "x", "y", "z" >>
BASE_MAP(char) ==
  IF \E i \in 1..Len(ALPHABET) : ALPHABET[i] = char
  THEN (CHOOSE i \in 1..Len(ALPHABET) : ALPHABET[i] = char) - 1
  ELSE 255

(* digits[lo..hi] * factor + carry in the given base, from the last digit *)
(* to the first: the new digits of the range and the carry out of it.  The *)
(* range is cut in four so that the evaluation stays shallow; the digits   *)
(* are still visited from hi down to lo, each with the carry of the one    *)
(* after it.                                                               *)
RECURSIVE MulAdd(_, _, _, _, _, _)
MulAdd(digits, lo, hi, factor, base, carry) ==
  CASE lo > hi -> [digits |-> <<>>, carry |-> carry]
    [] lo = hi -> [digits |-> <<(carry + factor * digits[lo]) % base>>,
                   carry |-> (carry + factor * digits[lo]) \div base]
    [] OTHER ->
       LET q == (hi - lo + 4) \div 4
           r4 == MulAdd(digits, lo + 3 * q, hi, factor, base, carry)
           r3 == MulAdd(digits, lo + 2 * q, Min(lo + 3 * q - 1, hi), factor, base, r4.carry)
           r2 == MulAdd(digits, lo + q, Min(lo + 2 * q - 1, hi), factor, base, r3.carry)
           r1 == MulAdd(digits, lo, lo + q - 1, factor, base, r2.carry)
       IN CASE r4.carry < factor /\ r3.carry < factor /\ r2.carry < factor ->
               [digits |-> r1.digits \o r2.digits \o r3.digits \o r4.digits,
                carry |-> r1.carry]

(* The items of source carried into digits one after the other, first to   *)
(* last; source is cut in four in the same way.                            *)
RECURSIVE Convert(_, _, _, _)
Convert(source, digits, factor, base) ==
  CASE Len(source) = 0 -> digits
    [] Len(source) = 1 -> MulAdd(digits, 1, Len(digits), factor, base, source[1]).digits
    [] OTHER ->
       LET q == (Len(source) + 3) \div 4
           d1 == Convert(SubSeq(source, 1, q), digits, factor, base)
           d2 == Convert(SubSeq(source, q + 1, Min(2 * q, Len(source))), d1, factor, base)
           d3 == Convert(SubSeq(source, 2 * q + 1, Min(3 * q, Len(source))), d2, factor, base)
       IN CASE Len(d1) = Len(digits) /\ Len(d2) = Len(digits) /\ Len(d3) = Len(digits) ->
               Convert(SubSeq(source, 3 * q + 1, Len(source)), d3, factor, base)

(* An encoder that wrote no leader for the leading zero bytes.             *)
base58EncodeWithoutLeader(source) ==
  LET zeroes == LeadingCount(source, 0)
      size == ((Len(source) - zeroes) * 138) \div 100 + 1
      b58 == Convert(Slice(source, zeroes), Repeat(0, size), 256, 58)
      it2 == LeadingCount(b58, 0)
  IN CASE Len(b58) = size -> [i \in 1..(size - it2) |-> ALPHABET[b58[it2 + i] + 1]]

base58Encode(source) ==
  LET zeroes == LeadingCount(source, 0)
      size == ((Len(source) - zeroes) * 138) \div 100 + 1
      b58 == Convert(Slice(source, zeroes), Repeat(0, size), 256, 58)
      it2 == LeadingCount(b58, 0)
  IN CASE Len(b58) = size ->
          Repeat("1", zeroes) \o [i \in 1..(size - it2) |-> ALPHABET[b58[it2 + i] + 1]]

base58Decode(source) ==
  IF source = <<>> THEN Ok(<<>>)
  ELSE IF \E i \in 1..Len(source) : BASE_MAP(source[i]) = 255
  THEN Throw("Non-base58 character")
  ELSE LET zeroes == LeadingCount(source, "1")
           size == ((Len(source) - zeroes) * 733) \div 1000 + 1
           b256 == Convert([i \in 1..(Len(source) - zeroes) |-> BASE_MAP(source[zeroes + i])],
                           Repeat(0, size), 58, 256)
           it4 == LeadingCount(b256, 0)
       IN CASE Len(b256) = size -> Ok(Repeat(0, zeroes) \o Slice(b256, it4))

(* The bytes of a SHA-256 digest of a public key.  The digest of the key   *)
(* with a given id is fixed; successive ids have no, one and two leading   *)
(* zero bytes.                                                             *)
HashLength == 32
DigestBytes(hash) ==
  [i \in 1..hash.len |-> IF i <= (hash.val.id - 1) % 3 THEN 0
                         ELSE (hash.val.id * 37 + i * 11) % 256]

(* The address as the string deriveAddress returns.                        *)
Oct == <<"o", "c", "t">>
AddressString(address) == Oct \o base58Encode(DigestBytes(address.hash))

(* deriveAddress of lines 329-334, on the getKeyPair of lines 308-311.     *)
deriveAddressUnvalidated(privateKeyB64) ==
  LET keyPair == getKeyPairUnvalidated(privateKeyB64) IN
  IF keyPair.thrown THEN keyPair
  ELSE Ok([prefix |-> "oct", hash |-> Sha256(keyPair.value.publicKey)])

(* validateAddress without its try and catch.                              *)
validateAddressUncaught(address) ==
  IF ~StartsWith(address, Oct) THEN Ok(FALSE)
  ELSE LET decoded == base58Decode(Slice(address, 3)) IN
       IF decoded.thrown THEN decoded ELSE Ok(Len(decoded.value) = HashLength)

validateAddress(address) ==
  IF ~StartsWith(address, Oct) THEN Ok(FALSE)
  ELSE LET decoded == base58Decode(Slice(address, 3)) IN
       IF decoded.thrown THEN Ok(FALSE) ELSE Ok(Len(decoded.value) = HashLength)

----------------------------------------------------------------------------
(* bip39.  A mnemonic string is a sequence of items: a word of the English *)
(* list by its index, NotListed for a word outside the list, Space.        *)

Space == 0 - 1
WordCount == 2048
NotListed == WordCount

(* String.split(sep): the pieces between the separators, empty ones kept.  *)
Split(str, sep) ==
  LET at == {i \in 1..Len(str) : str[i] = sep}
      nth(k) == IF k = 0 THEN 0
                ELSE IF k > Cardinality(at) THEN Len(str) + 1
                ELSE CHOOSE i \in at : Cardinality({j \in at : j < i}) = k - 1
  IN [k \in 1..(Cardinality(at) + 1) |-> SubSeq(str, nth(k - 1) + 1, nth(k) - 1)]

(* Array.join(sep).                                                        *)
RECURSIVE Join(_, _)
Join(words, sep) ==
  IF Len(words) = 0 THEN <<>>
  ELSE IF Len(words) = 1 THEN words[1]
  ELSE LET half == Len(words) \div 2 IN
       Join(SubSeq(words, 1, half), sep) \o <<sep>>
         \o Join(SubSeq(words, half + 1, Len(words)), sep)

(* String.trim(): white space removed at both ends.                        *)
Trim(str) ==
  LET kept == {i \in 1..Len(str) : str[i] # Space} IN
  IF kept = {} THEN <<>>
  ELSE SubSeq(str, CHOOSE i \in kept : \A j \in kept : i <= j,
                   CHOOSE i \in kept : \A j \in kept : i >= j)

(* wordlist.indexOf(word): -1 when the word is not in the list.            *)
WordIndex(word) ==
  IF Len(word) = 1 /\ word[1] >= 0 /\ word[1] < WordCount THEN word[1] ELSE 0 - 1

Pow2(n) == IF n = 0 THEN 1 ELSE 2 ^ n
ToBinary(n, width) == [i \in 1..width |-> (n \div Pow2(width - i)) % 2]
bytesToBinary(bytes) ==
  [k \in 1..(8 * Len(bytes)) |-> ToBinary(bytes[((k - 1) \div 8) + 1], 8)[((k - 1) % 8) + 1]]
(* parseInt(bits, 2): the number whose binary digits are bits.             *)
RECURSIVE binaryToByte(_)
binaryToByte(bits) ==
  CASE Len(bits) = 0 -> 0
    [] Len(bits) = 1 -> bits[1]
    [] OTHER ->
       LET q == (Len(bits) + 3) \div 4
           part(k) == SubSeq(bits, (k - 1) * q + 1, Min(k * q, Len(bits)))
       IN ((binaryToByte(part(1)) * Pow2(Len(part(2))) + binaryToByte(part(2)))
             * Pow2(Len(part(3))) + binaryToByte(part(3)))
            * Pow2(Len(part(4))) + binaryToByte(part(4))

(* A number that stands for the content of a string or byte string: the    *)
(* name under which a hash or key derivation refers to its input.          *)
IdModulus == 46337
RECURSIVE ContentId(_)
ContentId(str) ==
  CASE Len(str) = 0 -> 7
    [] Len(str) = 1 -> (str[1] + 2) % IdModulus
    [] OTHER ->
       LET q == (Len(str) + 3) \div 4
           h1 == ContentId(SubSeq(str, 1, q))
           h2 == ContentId(SubSeq(str, q + 1, Min(2 * q, Len(str))))
           h3 == ContentId(SubSeq(str, 2 * q + 1, Min(3 * q, Len(str))))
           h4 == ContentId(SubSeq(str, 3 * q + 1, Len(str)))
       IN ((((((h1 * 31 + h2) % IdModulus) * 37 + h3) % IdModulus) * 41 + h4) + Len(str))
            % IdModulus
DerivedIdBase == 1000

(* deriveChecksumBits: the first ENT/32 bits of SHA-256 of the entropy.    *)
deriveChecksumBits(entropyBytes) ==
  LET CS == (Len(entropyBytes) * 8) \div 32
      hash0 == ContentId(entropyBytes) % 256
  IN SubSeq(ToBinary(hash0, 8), 1, CS)

(* The bytes a raw byte string of the model stands for.                    *)
BufferBytes(b) == [i \in 1..b.len |-> (b.val.id * 53 + i * 29) % 256]

entropyToMnemonic(entropyBytes) ==
  IF Len(entropyBytes) < 16 \/ Len(entropyBytes) > 32 \/ Len(entropyBytes) % 4 # 0
  THEN Throw("Invalid entropy")
  ELSE LET bits == bytesToBinary(entropyBytes) \o deriveChecksumBits(entropyBytes)
           words == [i \in 1..(Len(bits) \div 11) |->
                       <<binaryToByte(SubSeq(bits, 11 * (i - 1) + 1, 11 * i))>>]
       IN Ok(Join(words, Space))

mnemonicToEntropy(mnemonic) ==
  LET words == Split(mnemonic, Space)
      bits == [k \in 1..(11 * Len(words)) |->
                 ToBinary(WordIndex(words[((k - 1) \div 11) + 1]), 11)[((k - 1) % 11) + 1]]
      dividerIndex == (Len(bits) \div 33) * 32
      entropyBits == SubSeq(bits, 1, dividerIndex)
      checksumBits == SubSeq(bits, dividerIndex + 1, Len(bits))
      entropyBytes == [i \in 1..(dividerIndex \div 8) |->
                         binaryToByte(SubSeq(entropyBits, 8 * (i - 1) + 1, 8 * i))]
  IN CASE Len(words) % 3 # 0 -> Throw("Invalid mnemonic")
       [] \E i \in 1..Len(words) : WordIndex(words[i]) = 0 - 1 -> Throw("Invalid mnemonic")
       [] Len(entropyBytes) < 16 \/ Len(entropyBytes) > 32 \/ Len(entropyBytes) % 4 # 0 ->
            Throw("Invalid entropy")
       [] deriveChecksumBits(entropyBytes) # checksumBits -> Throw("Invalid mnemonic checksum")
       [] OTHER -> Ok(entropyBytes)

validateMnemonic(mnemonic) == ~mnemonicToEntropy(mnemonic).thrown

(* mnemonicToSeedSync: PBKDF2-HMAC-SHA512 of the string, 64 bytes; any     *)
(* string is accepted.                                                     *)
mnemonicToSeedSync(mnemonic) == Bytes(64, "pbkdf2", DerivedIdBase + ContentId(mnemonic), <<>>)

(* deriveMasterKey: HMAC-SHA512 keyed "Octra seed", cut in two halves.     *)
deriveMasterKey(seed) ==
  [masterPrivateKey |-> Bytes(32, "hmac", seed.val.id, <<"0", seed.val.tag>> \o seed.val.msg),
   masterChainCode |-> Bytes(32, "hmac", seed.val.id, <<"32", seed.val.tag>> \o seed.val.msg)]

(* secretKey.slice(0, 32) without the slice.                               *)
SecretKeyWhole(secretKey) == secretKey
(* secretKey.slice(0, 32): the seed the key pair was made from.            *)
SecretKeySeed(secretKey) ==
  Bytes(32, Head(secretKey.val.msg), secretKey.val.id, Tail(secretKey.val.msg))

createOctraAddress(publicKey) == AddressString([prefix |-> "oct", hash |-> Sha256(publicKey)])

(* The locals of derivePrivateKeyFromMnemonic when it returns or throws; a *)
(* local not computed is <<>>.  Without the test of lines 104 and 342.     *)
DerivationUnvalidated(mnemonic) ==
  LET seed == mnemonicToSeedSync(mnemonic)
      keyPair == keyPairFromSeed(deriveMasterKey(seed).masterPrivateKey)
  IN [seed |-> <<seed>>, keyPair |-> <<keyPair.value>>,
      out |-> Ok(encodeBase64(SecretKeySeed(keyPair.value.secretKey)))]

Derivation(mnemonic) ==
  IF ~validateMnemonic(mnemonic)
  THEN [seed |-> <<>>, keyPair |-> <<>>, out |-> Throw("Invalid mnemonic phrase")]
  ELSE LET seed == mnemonicToSeedSync(mnemonic)
           keyPair == keyPairFromSeed(deriveMasterKey(seed).masterPrivateKey)
       IN [seed |-> <<seed>>, keyPair |-> <<keyPair.value>>,
           out |-> Ok(encodeBase64(SecretKeySeed(keyPair.value.secretKey)))]

(* derivePrivateKeyFromMnemonic of lines 102-117: the error is rethrown    *)
(* with a prefix.                                                          *)
derivePrivateKeyFromMnemonic(mnemonic) ==
  LET out == Derivation(mnemonic).out IN
  IF out.thrown THEN Throw("Failed to derive private key: " \o out.error) ELSE out

(* derivePrivateKeyFromMnemonic of lines 341-350.                          *)
derivePrivateKeyFromMnemonicLater(mnemonic) ==
  LET out == Derivation(mnemonic).out IN
  IF out.thrown THEN Throw("Mnemonic phrase tidak valid") ELSE out

TestMessage == <<"t", "e", "s", "t">>

(* createWallet on the 16 bytes generateEntropy(128) returned: 12 words, a *)
(* seed of 64 bytes, a public key of 32.                                   *)
createWallet(entropy) ==
  LET mnemonic == entropyToMnemonic(BufferBytes(entropy)).value
      mnemonicWords == Split(mnemonic, Space)
      seed == mnemonicToSeedSync(mnemonic)
      master == deriveMasterKey(seed)
      keyPair == keyPairFromSeed(master.masterPrivateKey).value
      privateKeyRaw == SecretKeySeed(keyPair.secretKey)
      publicKeyRaw == keyPair.publicKey
      signature == signDetached(TestMessage, keyPair.secretKey).value
  IN CASE Len(mnemonicWords) = 12 /\ seed.len = 64 /\ publicKeyRaw.len = 32 ->
     [address |-> createOctraAddress(publicKeyRaw),
      mnemonic |-> mnemonicWords,
      seed_hex |-> seed,
      master_chain_hex |-> master.masterChainCode,
      private_key_hex |-> privateKeyRaw,
      public_key_hex |-> publicKeyRaw,
      private_key_b64 |-> encodeBase64(privateKeyRaw),
      public_key_b64 |-> encodeBase64(publicKeyRaw),
      entropy_hex |-> entropy,
      test_message |-> TestMessage,
      test_signature |-> encodeBase64(signature),
      signature_valid |-> signDetachedVerify(TestMessage, signature, keyPair.publicKey).value]

----------------------------------------------------------------------------
(* Inputs of the calls of lib/crypto.ts.                                   *)

Malformed == B64(FALSE, Raw(0, 0), 0)
KeyLengths == {0, 31, 32, 33, 63, 64, 65}
KeyInputs ==
  {Malformed} \cup {B64(TRUE, Raw(n, id), 0) : n \in KeyLengths, id \in 1..MaxKeyId}
SeedKeys == {B64(TRUE, Raw(32, id), 0) : id \in 1..MaxKeyId}

Chars == {"a"} \cup LoneSurrogates
Messages == UNION {[1..n -> Chars] : n \in 0..MaxMsgLen}

(* Same bytes, other spelling: the slack bits set.                         *)
Respelled(s) == IF HasSlack(s.len) THEN [s EXCEPT !.slack = 1 - s.slack] ELSE s

SignatureInputs ==
  {Malformed}
  \cup {B64(TRUE, Raw(n, 1), 0) : n \in {0, 63, 64, 65}}
  \cup {signMessage(m, k).value : m \in {<<>>, <<"a">>}, k \in SeedKeys}
PublicKeyInputs ==
  {Malformed}
  \cup {B64(TRUE, Raw(n, 1), 0) : n \in {0, 31, 32, 33}}
  \cup {derivePublicKey(k).value : k \in SeedKeys}

(* Addresses given to validateAddress: derived ones, whole, cut and with   *)
(* another prefix; strings that decode to 31, 32 and 33 bytes; strings     *)
(* with a character outside the alphabet.                                  *)
DerivedAddresses == {AddressString(deriveAddress(k).value) : k \in SeedKeys}
AddressInputs ==
  {<<>>, Oct, <<"o", "c">>}
  \cup DerivedAddresses
  \cup {Slice(a, 3) : a \in DerivedAddresses}
  \cup {SubSeq(a, 1, Len(a) - 1) : a \in DerivedAddresses}
  \cup {<<"O", "C", "T">> \o Slice(a, 3) : a \in DerivedAddresses}
  \cup {a \o <<c>> : a \in DerivedAddresses, c \in {"1", "0", " "}}
  \cup {Oct \o Repeat("1", n) : n \in {31, 32, 33}}
  \cup {Oct \o Repeat(c, n) : c \in {"2", "z"}, n \in {43, 44}}
  \cup {Oct \o <<c>> \o Repeat("1", 31) : c \in {"0", "O", "I", "l", " ", "\\u00E9"}}

(* The entropies generateEntropy(128) may return.                          *)
Entropies == {Raw(16, id) : id \in 1..MaxKeyId}
CreatedMnemonics == {Join(createWallet(e).mnemonic, Space) : e \in Entropies}

NoCall == [op |-> "none"]
NoWallet == [connected |-> FALSE]

NoOp == [kind |-> "none", phase |-> "none"]
NoRun == [active |-> FALSE, mounted |-> FALSE]
NoProxy == [phase |-> "idle"]
InitialSidebar ==
  [open |-> "none", claimId |-> "", pendingTransfers |-> {}, running |-> <<>>, click |-> <<>>]
Recipient(address, amount, message) ==
  [message |-> message, address |-> address, amount |-> amount]
InitialDialog == [open |-> FALSE, step |-> "form", recipients |-> <<Recipient("", 0, "")>>,
                  progress |-> [sent |-> 0, total |-> 0], results |-> <<>>]
InitialUi == [error |-> "", message |-> "", login |-> "none",
              sendLoading |-> FALSE, sidebarLoading |-> FALSE,
              hookLoading |-> FALSE, isConnecting |-> FALSE, newWallet |-> <<>>]

(* JSON.  An object is the sequence of its fields in insertion order; a    *)
(* value is the token JSON.stringify writes for it, so the number 5 and    *)
(* the string "5" are different values.  A field holding undefined is      *)
(* left out of the serialization.                                          *)

F(k, v) == [v |-> v, k |-> k]
Undefined == "undefined"
JNum(n) == ToString(n)
JStr(str) == "\"" \o str \o "\""
(* The text of a Base64 string, of an address and of an envelope; two      *)
(* strings have the same text exactly when they are the same string.       *)
BytesText(b) == ToString(<<b.len, b.val.tag, b.val.id, b.val.msg>>)
B64Text(str) == ToString(<<str.wf, str.slack>>) \o BytesText(str)
AddressText(a) == a.prefix \o BytesText(a.hash)
EnvelopeText(e) == e.version \o "|" \o BytesText(e.key) \o e.plaintext
Delete(obj, key) == SelectSeq(obj, LAMBDA f : f.k # key)
Defined(obj) == SelectSeq(obj, LAMBDA f : f.v # Undefined)
JSONStringify(obj) ==
  [i \in 1..Len(Defined(obj)) |-> JStr(Defined(obj)[i].k) \o ":" \o Defined(obj)[i].v]
Keys(obj) == [i \in 1..Len(obj) |-> obj[i].k]
Has(obj, key) == \E i \in 1..Len(obj) : obj[i].k = key
Get(obj, key) == obj[CHOOSE i \in 1..Len(obj) : obj[i].k = key].v

(* The items localStorage may hold under 'octraWallet' when the page       *)
(* loads: none, text that JSON.parse refuses, the wallet a login saved,    *)
(* and a wallet saved with a 64-byte key, which this login would refuse.   *)
FirstSeedKey == B64(TRUE, Raw(32, 1), 0)
StaleKey == B64(TRUE, Raw(64, 1), 0)
SavedWallet(k) ==
  [publicKey |-> derivePublicKey(FirstSeedKey).value, address |-> deriveAddress(FirstSeedKey).value,
   connected |-> TRUE, privateKey |-> k]
(* The item of localStorage: JSON.stringify of a wallet, whose fields are  *)
(* strings, in the order privateKey, publicKey, address.                   *)
NoItem == [kind |-> "none"]
WalletItem(w) ==
  [kind |-> "item",
   text |-> JSONStringify(<< F("privateKey", JStr(B64Text(w.privateKey))),
                             F("publicKey", JStr(B64Text(w.publicKey))),
                             F("address", JStr(AddressText(w.address))) >>)]
SavedItems ==
  {NoItem, [kind |-> "corrupted"]}
  \cup {WalletItem(SavedWallet(k)) : k \in {FirstSeedKey, StaleKey}}

(* JSON.parse of an item: the wallet with the strings of the text.         *)
JSONParse(item) ==
  CHOOSE w \in {SavedWallet(k) : k \in {FirstSeedKey, StaleKey}} : WalletItem(w) = item

(* loadWallet: the wallet is taken from storage as it is; an item that     *)
(* does not parse is removed.                                              *)
loadWallet(savedWallet) ==
  IF savedWallet.kind = "item"
  THEN [wallet |-> JSONParse(savedWallet), storage |-> savedWallet]
  ELSE [wallet |-> NoWallet, storage |-> NoItem]

(* The state when the initial load has finished (isLoading is false).      *)
Init ==
  /\ call = NoCall
  /\ \E savedWallet \in SavedItems :
       /\ wallet = loadWallet(savedWallet).wallet
       /\ storage = loadWallet(savedWallet).storage
       /\ ui = [InitialUi EXCEPT !.login = IF wallet.connected THEN "connected" ELSE "none"]
  /\ nonce = 0
  /\ balance = 0
  /\ encBalance = [public |-> 0, encrypted |-> 0]
  /\ requests = <<>>
  /\ op = NoOp
  /\ dialog = InitialDialog
  /\ run = NoRun
  /\ sends = <<>>
  /\ proxy = NoProxy
  /\ sidebar = InitialSidebar

AppUnchanged ==
  UNCHANGED <<wallet, storage, nonce, balance, encBalance, requests, op, ui, dialog, run, sends,
              proxy, sidebar>>

CallValidatePrivateKey ==
  /\ call = NoCall
  /\ \E k \in KeyInputs :
    /\ call' = [op |-> "validatePrivateKey", out |-> validatePrivateKey(k), key |-> k]
    /\ AppUnchanged

CallGetKeyPair ==
  /\ call = NoCall
  /\ \E k \in KeyInputs :
    /\ call' = [op |-> "getKeyPair", publicKey |-> derivePublicKey(k), address |-> deriveAddress(k),
                out |-> getKeyPair(k),
                key |-> k, out2 |-> getKeyPairUnvalidated(k)]
    /\ AppUnchanged

CallSignMessage ==
  /\ call = NoCall
  /\ \E m \in Messages, k \in KeyInputs :
    /\ call' = [op |-> "signMessage", message |-> m, out |-> signMessage(m, k), key |-> k]
    /\ AppUnchanged

CallVerifySignature ==
  /\ call = NoCall
  /\ \E m \in {<<>>, <<"a">>}, s \in SignatureInputs, p \in PublicKeyInputs :
    /\ call' = [op |-> "verifySignature", publicKey |-> p, message |-> m, signature |-> s,
                out |-> verifySignature(m, s, p)]
    /\ AppUnchanged

(* Sign m with k, then verify with the message, the signature and the      *)
(* public key either kept or replaced by another value of the same length. *)
CallSignThenVerify ==
  /\ call = NoCall
  /\ \E m \in Messages, k \in SeedKeys :
    LET sig == signMessage(m, k).value
        pk == derivePublicKey(k).value
        messages2 == {m2 \in Messages : Len(m2) = Len(m)}
        signatures2 == {sig, Respelled(sig)}
                       \cup {signMessage(m2, k).value : m2 \in messages2}
                       \cup {signMessage(m, k2).value : k2 \in SeedKeys}
        publicKeys2 == {pk, Respelled(pk)} \cup {derivePublicKey(k2).value : k2 \in SeedKeys}
    IN \E m2 \in messages2, s2 \in signatures2, p2 \in publicKeys2 :
         /\ call' = [op |-> "signThenVerify", publicKey |-> pk, message |-> m,
                     signature |-> sig, out |-> verifySignature(m2, s2, p2),
                     key |-> k, message2 |-> m2, signature2 |-> s2,
                     publicKey2 |-> p2]
         /\ AppUnchanged

CallValidateAddress ==
  /\ call = NoCall
  /\ \E a \in AddressInputs :
    /\ call' = [op |-> "validateAddress", address |-> a, out |-> validateAddress(a)]
    /\ AppUnchanged

(* deriveAddress by both definitions of the file, and validateAddress on   *)
(* the string returned.                                                    *)
CallDeriveAddress ==
  /\ call = NoCall
  /\ \E k \in KeyInputs :
    LET out == deriveAddress(k) IN
    /\ call' = [op |-> "deriveAddress",
                valid |-> IF out.thrown THEN Ok(FALSE)
                          ELSE validateAddress(AddressString(out.value)),
                address |-> IF out.thrown THEN <<>> ELSE AddressString(out.value),
                out |-> out, key |-> k,
                out2 |-> deriveAddressUnvalidated(k)]
    /\ AppUnchanged

(* createWallet, then the import of the words it returned, joined by      *)
(* single spaces, and deriveAddress of the imported key.                   *)
CallCreateWallet ==
  /\ call = NoCall
  /\ \E entropy \in Entropies :
    LET W == createWallet(entropy)
        imported == derivePrivateKeyFromMnemonic(Join(W.mnemonic, Space))
        derived == IF imported.thrown THEN imported ELSE deriveAddress(imported.value)
    IN /\ call' = [op |-> "createWallet",
                   address |-> IF derived.thrown THEN <<>> ELSE AddressString(derived.value),
                   out |-> W, entropy |-> entropy, imported |-> imported]
       /\ AppUnchanged

(* The call returns; the next one may start.                               *)
CallReturn ==
  /\ call # NoCall
  /\ call' = NoCall
  /\ AppUnchanged

NextCrypto ==
  \/ CallValidatePrivateKey
  \/ CallGetKeyPair
  \/ CallSignMessage
  \/ CallVerifySignature
  \/ CallSignThenVerify
  \/ CallValidateAddress
  \/ CallDeriveAddress
  \/ CallCreateWallet
  \/ CallReturn

SpecCrypto == Init /\ [][NextCrypto]_vars

----------------------------------------------------------------------------
(* WalletContext.                                                          *)

Wallet(k) ==
  [publicKey |-> derivePublicKey(k).value, address |-> deriveAddress(k).value,
   connected |-> TRUE, privateKey |-> k]

LoginThrows(k) ==
  validatePrivateKey(k).thrown \/ derivePublicKey(k).thrown \/ deriveAddress(k).thrown

LoginKeys ==
  {Malformed, B64(TRUE, Raw(64, 1), 0)} \cup SeedKeys

OpsUnchanged == UNCHANGED <<call, dialog, run, sends, proxy, sidebar>>

(* SWR has no data for a key it has not fetched: the hooks then report a   *)
(* nonce and balances of 0.                                                *)
NoBalance == [public |-> 0, encrypted |-> 0]

(* login(k) up to its first await; shown is the interface state the       *)
(* caller leaves.  A throw rejects the promise login returns.              *)
login(k, shown) ==
  IF LoginThrows(k)
  THEN /\ ui' = [shown EXCEPT !.login = "rejected"]
       /\ UNCHANGED <<wallet, storage, nonce, balance, encBalance>>
  ELSE /\ wallet' = Wallet(k)
       /\ storage' = WalletItem(Wallet(k))
       /\ ui' = [shown EXCEPT !.login = "connected"]
       /\ IF wallet = Wallet(k)
          THEN UNCHANGED <<nonce, balance, encBalance>>
          ELSE nonce' = 0 /\ balance' = 0 /\ encBalance' = NoBalance

Login ==
  /\ op = NoOp
  /\ \E k \in LoginKeys : login(k, ui)
  /\ UNCHANGED <<requests, op>>
  /\ OpsUnchanged

logoutKeepsItem(shown) ==
  /\ wallet' = NoWallet
  /\ storage' = storage
  /\ ui' = [shown EXCEPT !.login = "none"]
  /\ nonce' = 0 /\ balance' = 0 /\ encBalance' = NoBalance

(* logout(): the item is removed and the wallet set to null; shown is the  *)
(* interface state of the components that stay.                            *)
logout(shown) ==
  /\ wallet' = NoWallet
  /\ storage' = NoItem
  /\ ui' = [shown EXCEPT !.login = "none"]
  /\ nonce' = 0 /\ balance' = 0 /\ encBalance' = NoBalance

(* The sidebar is unmounted with the dashboard, and its state is lost.     *)
Logout ==
  /\ op = NoOp
  /\ wallet.connected
  /\ logout([ui EXCEPT !.sidebarLoading = FALSE])
  /\ UNCHANGED <<requests, op>>
  /\ OpsUnchanged

----------------------------------------------------------------------------
(* WalletSetup, the screen shown while no wallet is connected.             *)

(* What the user may type as a mnemonic: the phrase of a created wallet,   *)
(* whole, with white space around it, with two spaces between two words,   *)
(* with the last word replaced by its successor in the list, without its   *)
(* last word, with a first word that is not in the list, cut to 3 words;   *)
(* nothing; a single space.                                                *)
MnemonicInputs ==
  {<<>>, <<Space>>}
  \cup CreatedMnemonics
  \cup {<<Space>> \o m \o <<Space>> : m \in CreatedMnemonics}
  \cup {SubSeq(m, 1, 2) \o <<Space>> \o SubSeq(m, 3, Len(m)) : m \in CreatedMnemonics}
  \cup {[m EXCEPT ![Len(m)] = (m[Len(m)] + 1) % WordCount] : m \in CreatedMnemonics}
  \cup {SubSeq(m, 1, Len(m) - 2) : m \in CreatedMnemonics}
  \cup {<<NotListed>> \o Tail(m) : m \in CreatedMnemonics}
  \cup {SubSeq(m, 1, 5) : m \in CreatedMnemonics}

Tabs == {"private-key", "mnemonic"}
EmptyKey == B64(TRUE, Raw(0, 1), 0)
EmptyText(k) == k.wf /\ k.len = 0

(* handleConnect up to the call of login: the error it shows, the key it   *)
(* passes to login, and the locals of the derivation it ran; <<>> where    *)
(* there is none.                                                          *)
handleConnect(activeTab, privateKey, mnemonic) ==
  IF activeTab = "private-key"
  THEN IF EmptyText(privateKey)
       THEN [error |-> "Private key cannot be empty.", login |-> <<>>, derivation |-> <<>>]
       ELSE [error |-> "", login |-> <<privateKey>>, derivation |-> <<>>]
  ELSE IF mnemonic = <<>>
       THEN [error |-> "Mnemonic phrase cannot be empty.", login |-> <<>>, derivation |-> <<>>]
       ELSE LET derivedPrivateKey == derivePrivateKeyFromMnemonic(Trim(mnemonic)) IN
            IF derivedPrivateKey.thrown
            THEN [error |-> derivedPrivateKey.error, login |-> <<>>,
                  derivation |-> <<Derivation(Trim(mnemonic))>>]
            ELSE [error |-> "", login |-> <<derivedPrivateKey.value>>,
                  derivation |-> <<Derivation(Trim(mnemonic))>>]

(* The user presses Connect on the tab shown, the field of the other tab   *)
(* left empty.  login is not awaited: when                                 *)
(* it throws, handleConnect catches nothing.  A login that succeeds takes  *)
(* the screen away, and its state with it.                                 *)
HandleConnect ==
  /\ op = NoOp
  /\ ~wallet.connected
  /\ \E activeTab \in Tabs :
     \E privateKey \in IF activeTab = "private-key" THEN KeyInputs ELSE {EmptyKey},
        mnemonic \in IF activeTab = "mnemonic" THEN MnemonicInputs ELSE {<<>>} :
       LET out == handleConnect(activeTab, privateKey, mnemonic) IN
       /\ op' = [error |-> out.error, kind |-> "handleConnect", phase |-> "done",
                 login |-> out.login, activeTab |-> activeTab,
                 derivation |-> out.derivation,
                 input |-> IF activeTab = "mnemonic" THEN <<mnemonic>> ELSE <<privateKey>>]
       /\ IF out.login = <<>>
          THEN /\ ui' = [ui EXCEPT !.error = out.error, !.isConnecting = FALSE]
               /\ UNCHANGED <<wallet, storage, nonce, balance, encBalance>>
          ELSE IF LoginThrows(out.login[1])
               THEN login(out.login[1], [ui EXCEPT !.error = "", !.isConnecting = FALSE])
               ELSE login(out.login[1], InitialUi)
  /\ UNCHANGED requests
  /\ OpsUnchanged

(* The user presses Create: createWallet on fresh entropy.                 *)
HandleCreate ==
  /\ op = NoOp
  /\ ~wallet.connected
  /\ \E entropy \in Entropies :
       ui' = [ui EXCEPT !.error = "", !.newWallet = <<createWallet(entropy)>>]
  /\ UNCHANGED <<wallet, storage, nonce, balance, encBalance, requests, op>>
  /\ OpsUnchanged

----------------------------------------------------------------------------
(* useWalletBalance and useEncryptedBalance: what SWR last fetched.         *)
(* Amounts are in micro-units (1 OCT = MU_FACTOR), so that 999.999999 OCT  *)
(* is a value of the model.                                                *)

OCT(n) == n * MU_FACTOR
BalanceInputs == {0, OCT(1000)}
EncryptedInputs == {0, OCT(1)}

(* useWalletBalance: SWR delivers the balance and the nonce.  An operation *)
(* in progress keeps the values of the render it was called in, so that a  *)
(* delivery during an operation is the same as one after it.               *)
BalanceFetched ==
  /\ op = NoOp
  /\ wallet.connected
  /\ \E n \in 0..MaxNonce, b \in BalanceInputs :
       /\ nonce' = n
       /\ balance' = b
  /\ <<nonce, balance>> # <<nonce', balance'>>
  /\ UNCHANGED <<wallet, storage, encBalance, requests, op, ui>>
  /\ OpsUnchanged

(* useEncryptedBalance: SWR delivers the public and encrypted balances.    *)
EncryptedBalanceFetched ==
  /\ op = NoOp
  /\ wallet.connected
  /\ \E b \in BalanceInputs, e \in EncryptedInputs :
       encBalance' = [public |-> b, encrypted |-> e]
  /\ encBalance # encBalance'
  /\ UNCHANGED <<wallet, storage, nonce, balance, requests, op, ui>>
  /\ OpsUnchanged

----------------------------------------------------------------------------
(* Requests posted to /api/proxy.  xkey is the X-Private-Key header, auth  *)
(* the bearer of the Authorization header; payload is the payload as       *)
(* serialized in the body.  signedText is what was given to the signer,    *)
(* and in the inputs the request was built from (both history).            *)

NoKey == B64(FALSE, Raw(0, 0), 1)
NoSignature == B64(FALSE, Raw(0, 0), 1)
Request(origin, method, endpoint, auth, xkey, payload, signedText, signature, in) ==
  [signature |-> signature, origin |-> origin, method |-> method, endpoint |-> endpoint,
   auth |-> auth, xkey |-> xkey, payload |-> Defined(payload),
   signedText |-> signedText, in |-> in]
NoRequest == Request("none", "", "", NoKey, NoKey, <<>>, <<>>, NoSignature, <<>>)

(* Date.now(), in milliseconds.                                            *)
ClockInputs == {1000 * t : t \in 1..MaxTime}

Responses == {"ok", "rejected", "failed"}

----------------------------------------------------------------------------
(* useSendTransaction.sendTransaction.  An optional parameter is a         *)
(* sequence: empty when it is not passed, <<v>> when v is passed.          *)

TruthyNumber(x) == x # <<>> /\ x[1] # 0
TruthyString(x) == x # <<>> /\ x[1] # ""
CurrentNonce(_nonce, walletNonce) == IF _nonce # <<>> THEN _nonce[1] ELSE walletNonce
NonceField(_nonce, walletNonce) ==
  IF TruthyNumber(_nonce) THEN _nonce[1] ELSE CurrentNonce(_nonce, walletNonce) + 1
(* The fee tier; a tier that counted exactly 1000 OCT as below the          *)
(* threshold would be OuInclusive.                                         *)
OuInclusive(amount) == IF amount <= OCT(1000) THEN "1" ELSE "3"
Ou(amount) == IF amount < OCT(1000) THEN "1" ELSE "3"

(* The timestamp is Date.now() / 1000 plus a random fraction below 0.01;   *)
(* the model keeps the seconds.                                            *)
Transaction(w, walletNonce, p, now) ==
  << F("from", JStr(AddressText(w.address))),
     F("to_", JStr(p.to)),
     F("amount", JStr(ToString(p.amount))),
     F("nonce", JNum(NonceField(p._nonce, walletNonce))),
     F("ou", JStr(Ou(p.amount))),
     F("timestamp", JNum(now \div 1000)),
     F("message", IF TruthyString(p.message) THEN JStr(p.message[1]) ELSE Undefined) >>

(* The signable data is the transaction without its message; a signer that *)
(* kept the message would sign SignableDataKeepMessage.                    *)
SignableDataKeepMessage(transaction) == transaction
SignableData(transaction) == Delete(transaction, "message")

SignedTransaction(transaction, signatureB64, publicKeyB64) ==
  transaction \o << F("signature", JStr(B64Text(signatureB64))),
                    F("public_key", JStr(B64Text(publicKeyB64))) >>

SendEndpoint(isPrivate) == IF isPrivate THEN "/private_transfer" ELSE "/send-tx"

(* Only a private transfer carries the private key in its payload; a       *)
(* builder that attached it to every transfer would be SendPayloadWithKey. *)
SendPayloadWithKey(w, signedTransaction, isPrivate) ==
  signedTransaction \o << F("from_private_key", JStr(B64Text(w.privateKey))) >>

SendPayload(w, signedTransaction, isPrivate) ==
  IF isPrivate
  THEN signedTransaction \o << F("from_private_key", JStr(B64Text(w.privateKey))) >>
  ELSE signedTransaction

(* A catch block that submitted the transaction without its signature.     *)
sendTransactionCaughtSubmits(w, error) ==
  [error |-> error, posted |-> TRUE, loading |-> TRUE,
   request |-> Request("sendTransaction", "POST", "/send-tx", w.privateKey, w.privateKey,
                       <<>>, <<>>, NoSignature, [wallet |-> w])]

(* The catch block: the error is returned, nothing is submitted.           *)
sendTransactionCaught(w, error) ==
  [error |-> error, posted |-> FALSE, loading |-> TRUE, request |-> NoRequest]

(* The call up to its fetch: either it returns or throws before any        *)
(* request is made, or it posts one request.                               *)
sendTransaction(w, walletNonce, walletBalance, p, now) ==
  IF ~w.connected
  THEN [error |-> "Wallet not connected", posted |-> FALSE, loading |-> FALSE,
        request |-> NoRequest]
  ELSE IF walletBalance < p.amount
  THEN [error |-> "Insufficient balance", posted |-> FALSE, loading |-> FALSE,
        request |-> NoRequest]
  ELSE
    LET keyPair == getKeyPair(w.privateKey) IN
    IF keyPair.thrown
    THEN sendTransactionCaught(w, keyPair.error)
    ELSE
      LET transaction == Transaction(w, walletNonce, p, now)
          transactionString == JSONStringify(SignableData(transaction))
          messageBytes == TextEncode(transactionString)
          signature == signDetached(messageBytes, keyPair.value.secretKey)
          signatureB64 == encodeBase64(signature.value)
          publicKeyB64 == encodeBase64(keyPair.value.publicKey)
          signedTransaction == SignedTransaction(transaction, signatureB64, publicKeyB64)
          payload == SendPayload(w, signedTransaction, p.isPrivate)
      IN [error |-> "", posted |-> TRUE, loading |-> TRUE,
          request |-> Request("sendTransaction", "POST", SendEndpoint(p.isPrivate),
                              w.privateKey, w.privateKey, payload,
                              transactionString, signatureB64,
                              [wallet |-> w, p |-> p, walletNonce |-> walletNonce,
                               now |-> now, walletBalance |-> walletBalance])]

Recipients == {"octA", "octB"}
AmountInputs == {OCT(1), OCT(1000)}
NonceArgs == {<<>>} \cup {<<n>> : n \in 0..MaxNonceArg}
MessageArgs == {<<>>, <<"">>, <<"hi">>}
SendParams ==
  [to : Recipients, amount : AmountInputs, _nonce : NonceArgs, message : MessageArgs,
   isPrivate : BOOLEAN]

Done(kind, success, error) ==
  [error |-> error, kind |-> kind, phase |-> "done", success |-> success]

(* A component calls sendTransaction.                                      *)
SendTransaction ==
  /\ op = NoOp
  /\ \E p \in SendParams, now \in ClockInputs :
       LET out == sendTransaction(wallet, nonce, balance, p, now) IN
       IF out.posted
       THEN /\ requests' = Append(requests, out.request)
            /\ op' = [kind |-> "sendTransaction", phase |-> "posted"]
            /\ ui' = [ui EXCEPT !.sendLoading = TRUE]
       ELSE /\ op' = Done("sendTransaction", FALSE, out.error)
            /\ UNCHANGED <<requests, ui>>
  /\ UNCHANGED <<wallet, storage, nonce, balance, encBalance>>
  /\ OpsUnchanged

(* The proxy answers (accepted, refused, or no answer at all); the finally *)
(* block clears isLoading.                                                 *)
SendTransactionSettle ==
  /\ op.kind = "sendTransaction" /\ op.phase = "posted"
  /\ \E response \in Responses :
       op' = Done("sendTransaction", response = "ok",
                  IF response = "ok" THEN "" ELSE "Transaction failed")
  /\ requests' = <<>>
  /\ ui' = [ui EXCEPT !.sendLoading = FALSE]
  /\ UNCHANGED <<wallet, storage, nonce, balance, encBalance>>
  /\ OpsUnchanged

(* The caller takes the result of the operation.                           *)
OpDone ==
  /\ op # NoOp /\ op.phase = "done"
  /\ op' = NoOp
  /\ UNCHANGED <<wallet, storage, nonce, balance, encBalance, requests, ui>>
  /\ OpsUnchanged

----------------------------------------------------------------------------
(* Balance envelopes.  The sidebar derives the key from the UTF-8 bytes of *)
(* the Base64 text of the private key, the hook from the bytes that text   *)
(* decodes to (Buffer.from never throws).  The random nonce of the         *)
(* envelope is left out.                                                   *)

Salt == "octra_encrypted_balance_v2"
SaltLength == 26
Utf8(s) == Bytes(B64Length(s), "utf8", s.val.id, <<s.val.tag, ToString(s.slack)>> \o s.val.msg)
BufferFromBase64(s) == [len |-> s.len, val |-> s.val]
Salted(b) == Bytes(SaltLength + b.len, b.val.tag, b.val.id, <<Salt>> \o b.val.msg)
SidebarDeriveEncryptionKey(privkey) == Sha256(Salted(Utf8(privkey)))
deriveEncryptionKey(privkeyB64) == Sha256(Salted(BufferFromBase64(privkeyB64)))
Envelope(key, newBalance) == [version |-> "v2", key |-> key, plaintext |-> ToString(newBalance)]
encryptBalanceValue(newBalance, privkey) ==
  Envelope(SidebarDeriveEncryptionKey(privkey), newBalance)
encryptClientBalance(newBalance, privkeyB64) ==
  Envelope(deriveEncryptionKey(privkeyB64), newBalance)

(* The balance to put in the envelope: the one fetched plus the amount to  *)
(* encrypt, or minus the amount to decrypt; a computation that added in    *)
(* both cases would be NewEncryptedRawAdded.                               *)
NewEncryptedRawAdded(encrypt, currentEncryptedRaw, amountRaw) ==
  currentEncryptedRaw + amountRaw
NewEncryptedRaw(encrypt, currentEncryptedRaw, amountRaw) ==
  IF encrypt THEN currentEncryptedRaw + amountRaw ELSE currentEncryptedRaw - amountRaw

ViewEncryptedBalance(origin, w, auth, in) ==
  Request(origin, "GET", "/view_encrypted_balance", auth, w.privateKey, <<>>, <<>>,
          NoSignature, in)

----------------------------------------------------------------------------
(* Sidebar: handleEncrypt, handleDecrypt, handlePrivateTransfer.           *)

NaN == [n |-> 0, nan |-> TRUE]
ParseFloat(text) ==
  CASE text = "0" -> [n |-> 0, nan |-> FALSE]
    [] text = "1" -> [n |-> OCT(1), nan |-> FALSE]
    [] text = "2" -> [n |-> OCT(2), nan |-> FALSE]
    [] OTHER -> NaN
AmountTexts == {"", "abc", "0", "1", "2"}
RecipientTexts == {""} \cup Recipients
SidebarMaxRetries == 3

MaxEncryptable == IF encBalance.public > OCT(1) THEN encBalance.public - OCT(1) ELSE 0

(* The message of the early return of a handler, "" when it goes on.       *)
SidebarRefusal(kind, recipient, amount) ==
  LET amt == ParseFloat(amount) IN
  IF ~wallet.connected \/ amount = "" \/ (kind = "handlePrivateTransfer" /\ recipient = "")
  THEN IF kind = "handlePrivateTransfer" THEN "Please fill all fields"
       ELSE "Please enter an amount"
  ELSE IF amt.nan THEN "Invalid amount"
  ELSE IF amt.n <= 0 THEN "Amount must be positive"
  ELSE IF kind = "handleEncrypt" /\ amt.n > MaxEncryptable
  THEN "Amount exceeds maximum encryptable balance"
  ELSE IF kind # "handleEncrypt" /\ amt.n > encBalance.encrypted
  THEN "Amount exceeds encrypted balance"
  ELSE ""

(* The signed message and the POST request of handleEncrypt/handleDecrypt. *)
SidebarBalanceRequest(kind, w, amountRaw, currentEncryptedRaw, timestamp) ==
  LET newEncryptedRaw == NewEncryptedRaw(kind = "handleEncrypt", currentEncryptedRaw, amountRaw)
      encryptedData == encryptBalanceValue(newEncryptedRaw, w.privateKey)
      keyPair == getKeyPair(w.privateKey)
      message == JSONStringify(<< F("address", JStr(AddressText(w.address))),
                                  F("amount", JNum(amountRaw)),
                                  F("new_balance", JNum(newEncryptedRaw)),
                                  F("timestamp", JNum(timestamp)) >>)
      signature == signDetached(TextEncode(message), keyPair.value.secretKey)
  IN IF keyPair.thrown THEN NoRequest
     ELSE Request(kind, "POST",
                  IF kind = "handleEncrypt" THEN "/encrypt_balance" ELSE "/decrypt_balance",
                  w.privateKey, w.privateKey,
                  << F("address", JStr(AddressText(w.address))),
                     F("amount", JStr(ToString(amountRaw))),
                     F("private_key", JStr(B64Text(w.privateKey))),
                     F("encrypted_data", JStr(EnvelopeText(encryptedData))),
                     F("signature", JStr(B64Text(encodeBase64(signature.value)))),
                     F("public_key", JStr(B64Text(w.publicKey))),
                     F("timestamp", JNum(timestamp)) >>,
                  message, encodeBase64(signature.value),
                  [wallet |-> w, newBalance |-> newEncryptedRaw,
                   amountRaw |-> amountRaw, timestamp |-> timestamp,
                   fetched |-> currentEncryptedRaw])

(* The button of a handler is disabled while loading is set.               *)
SidebarStart(kind) ==
  /\ op = NoOp
  /\ ~ui.sidebarLoading
  /\ \E amount \in AmountTexts :
       LET refusal == SidebarRefusal(kind, "", amount) IN
       IF refusal # ""
       THEN /\ ui' = [ui EXCEPT !.message = refusal]
            /\ op' = Done(kind, FALSE, refusal)
            /\ UNCHANGED requests
       ELSE /\ ui' = [ui EXCEPT !.sidebarLoading = TRUE, !.message = ""]
            /\ op' = [kind |-> kind, phase |-> "fetching", w |-> wallet,
                      amt |-> ParseFloat(amount).n, retries |-> 0]
            /\ requests' = Append(requests,
                                  ViewEncryptedBalance(kind, wallet, wallet.privateKey, <<>>))
  /\ UNCHANGED <<wallet, storage, nonce, balance, encBalance>>
  /\ OpsUnchanged

HandleEncrypt == SidebarStart("handleEncrypt")
HandleDecrypt == SidebarStart("handleDecrypt")

SidebarFail(error) ==
  /\ ui' = [ui EXCEPT !.sidebarLoading = FALSE, !.message = error]
  /\ op' = Done(op.kind, FALSE, error)
  /\ requests' = <<>>

(* The answer to the balance request: an answer that is not OK, or none,   *)
(* is retried up to maxRetries times; an OK answer carries the             *)
(* encrypted_balance_raw the new balance is computed from.                 *)
SidebarBalanceResponse ==
  /\ op.kind \in {"handleEncrypt", "handleDecrypt"} /\ op.phase = "fetching"
  /\ \/ /\ op.retries < SidebarMaxRetries
        /\ op' = [op EXCEPT !.retries = @ + 1]
        /\ UNCHANGED <<requests, ui>>
     \/ /\ op.retries = SidebarMaxRetries
        /\ SidebarFail("Failed to get encrypted balance after retries")
     \/ \E currentEncryptedRaw \in EncryptedInputs, now \in ClockInputs :
          LET amountRaw == op.amt
              request == SidebarBalanceRequest(op.kind, op.w, amountRaw, currentEncryptedRaw,
                                               now)
          IN IF op.kind = "handleDecrypt" /\ currentEncryptedRaw < amountRaw
             THEN SidebarFail("Insufficient encrypted balance")
             ELSE IF request = NoRequest
             THEN SidebarFail("Failed to generate key pair")
             ELSE /\ requests' = <<request>>
                  /\ op' = [kind |-> op.kind, phase |-> "posted"]
                  /\ UNCHANGED ui
  /\ UNCHANGED <<wallet, storage, nonce, balance, encBalance>>
  /\ OpsUnchanged

PrivateTransferRequest(w, recipient, amountRaw, timestamp, nonceMs) ==
  LET keyPair == getKeyPair(w.privateKey)
      messageObj == << F("from", JStr(AddressText(w.address))),
                       F("to", JStr(recipient)),
                       F("amount", JNum(amountRaw)),
                       F("timestamp", JNum(timestamp)),
                       F("nonce", JNum(nonceMs)) >>
      signedText == JSONStringify(messageObj)
      signature == signDetached(TextEncode(signedText), keyPair.value.secretKey)
  IN IF keyPair.thrown THEN NoRequest
     ELSE Request("handlePrivateTransfer", "POST", "/private_transfer",
                  w.privateKey, w.privateKey,
                  << F("from", JStr(AddressText(w.address))),
                     F("to", JStr(recipient)),
                     F("amount", JStr(ToString(amountRaw))),
                     F("from_private_key", JStr(B64Text(w.privateKey))),
                     F("signature", JStr(B64Text(encodeBase64(signature.value)))),
                     F("public_key", JStr(B64Text(w.publicKey))),
                     F("timestamp", JNum(timestamp)),
                     F("nonce", JNum(nonceMs)),
                     F("message", JStr("")) >>,
                  signedText, encodeBase64(signature.value),
                  [wallet |-> w, amountRaw |-> amountRaw, recipient |-> recipient])

HandlePrivateTransfer ==
  /\ op = NoOp
  /\ ~ui.sidebarLoading
  /\ \E recipient \in RecipientTexts, amount \in AmountTexts, now \in ClockInputs :
       LET refusal == SidebarRefusal("handlePrivateTransfer", recipient, amount)
           request == PrivateTransferRequest(wallet, recipient, ParseFloat(amount).n,
                                             now \div 1000, now)
       IN IF refusal # ""
          THEN /\ ui' = [ui EXCEPT !.message = refusal]
               /\ op' = Done("handlePrivateTransfer", FALSE, refusal)
               /\ UNCHANGED requests
          ELSE IF request = NoRequest
          THEN /\ ui' = [ui EXCEPT !.message = "Failed to generate key pair"]
               /\ op' = Done("handlePrivateTransfer", FALSE, "Failed to generate key pair")
               /\ UNCHANGED requests
          ELSE /\ ui' = [ui EXCEPT !.sidebarLoading = TRUE, !.message = ""]
               /\ op' = [kind |-> "handlePrivateTransfer", phase |-> "posted"]
               /\ requests' = Append(requests, request)
  /\ UNCHANGED <<wallet, storage, nonce, balance, encBalance>>
  /\ OpsUnchanged

(* The answer to the POST of a sidebar handler.  handleEncrypt and         *)
(* handlePrivateTransfer clear loading in a finally block, handleDecrypt   *)
(* in its catch block only: after a decryption that succeeded loading      *)
(* stays set.                                                              *)
SidebarSettle ==
  /\ op.kind \in {"handleEncrypt", "handleDecrypt", "handlePrivateTransfer"}
  /\ op.phase = "posted"
  /\ \E response \in Responses :
       /\ op' = Done(op.kind, response = "ok", IF response = "ok" THEN "" ELSE "failed")
       /\ ui' = [ui EXCEPT !.sidebarLoading = op.kind = "handleDecrypt" /\ response = "ok",
                           !.message = IF response = "ok" THEN "Success" ELSE "failed"]
  /\ requests' = <<>>
  /\ UNCHANGED <<wallet, storage, nonce, balance, encBalance>>
  /\ OpsUnchanged

----------------------------------------------------------------------------
(* useEncryptDecrypt.encryptDecryptBalance.                                *)

HookAmounts == {OCT(1), OCT(2)}
HookActions == {"encrypt", "decrypt"}
BalanceEndpoint(action) == IF action = "encrypt" THEN "/encrypt_balance" ELSE "/decrypt_balance"

EncryptDecryptRequest(w, amountRaw, currentEncryptedRaw, action) ==
  LET newEncryptedRaw == NewEncryptedRaw(action = "encrypt", currentEncryptedRaw, amountRaw)
      encryptedValue == encryptClientBalance(newEncryptedRaw, w.privateKey)
  IN
  Request("encryptDecryptBalance", "POST", BalanceEndpoint(action),
          w.privateKey, w.privateKey,
          << F("address", JStr(AddressText(w.address))),
             F("amount", JStr(ToString(amountRaw))),
             F("private_key", JStr(B64Text(w.privateKey))),
             F("encrypted_data", JStr(EnvelopeText(encryptedValue))) >>,
          <<>>, NoSignature,
          [wallet |-> w, newBalance |-> newEncryptedRaw, amountRaw |-> amountRaw,
           fetched |-> currentEncryptedRaw])

EncryptDecryptBalance ==
  /\ op = NoOp
  /\ \E amount \in HookAmounts, action \in HookActions :
       IF ~wallet.connected
       THEN /\ op' = Done("encryptDecryptBalance", FALSE, "Wallet not connected")
            /\ UNCHANGED <<requests, ui>>
       ELSE /\ ui' = [ui EXCEPT !.hookLoading = TRUE]
            /\ op' = [kind |-> "encryptDecryptBalance", phase |-> "fetching", amount |-> amount,
                      w |-> wallet, action |-> action]
            /\ requests' = Append(requests,
                                  ViewEncryptedBalance("encryptDecryptBalance", wallet,
                                                       wallet.privateKey, <<>>))
  /\ UNCHANGED <<wallet, storage, nonce, balance, encBalance>>
  /\ OpsUnchanged

HookFail(error) ==
  /\ ui' = [ui EXCEPT !.hookLoading = FALSE]
  /\ op' = Done("encryptDecryptBalance", FALSE, error)
  /\ requests' = <<>>

HookBalanceResponse ==
  /\ op.kind = "encryptDecryptBalance" /\ op.phase = "fetching"
  /\ \/ HookFail("Failed to get encrypted balance")
     \/ \E currentEncryptedRaw \in EncryptedInputs :
          LET amountRaw == op.amount IN
             IF op.action = "decrypt" /\ currentEncryptedRaw < amountRaw
             THEN HookFail("Insufficient encrypted balance")
             ELSE /\ requests' = <<EncryptDecryptRequest(op.w, amountRaw, currentEncryptedRaw,
                                                         op.action)>>
                  /\ op' = [kind |-> "encryptDecryptBalance", phase |-> "posted"]
                  /\ UNCHANGED ui
  /\ UNCHANGED <<wallet, storage, nonce, balance, encBalance>>
  /\ OpsUnchanged

HookSettle ==
  /\ op.kind = "encryptDecryptBalance" /\ op.phase = "posted"
  /\ \E response \in Responses :
       op' = Done("encryptDecryptBalance", response = "ok",
                  IF response = "ok" THEN "" ELSE "Transaction failed")
  /\ ui' = [ui EXCEPT !.hookLoading = FALSE]
  /\ requests' = <<>>
  /\ UNCHANGED <<wallet, storage, nonce, balance, encBalance>>
  /\ OpsUnchanged

----------------------------------------------------------------------------
(* lib/api.ts: encryptBalance, decryptBalance, createPrivateTransfer.  The *)
(* address and the key are arguments; only X-Private-Key is set.           *)

ApiBalanceRequest(origin, address, amount, privateKey) ==
  Request(origin, "POST",
          IF origin = "encryptBalance" THEN "/encrypt_balance" ELSE "/decrypt_balance",
          NoKey, privateKey,
          << F("address", JStr(AddressText(address))),
             F("amount", JStr(ToString(amount))),
             F("private_key", JStr(B64Text(privateKey))) >>,
          <<>>, NoSignature, [amountRaw |-> amount])

ApiPrivateTransferRequest(fromAddress, toAddress, amount, privateKey) ==
  Request("createPrivateTransfer", "POST", "/private_transfer", NoKey, privateKey,
          << F("from", JStr(AddressText(fromAddress))),
             F("to", JStr(toAddress)),
             F("amount", JStr(ToString(amount))),
             F("from_private_key", JStr(B64Text(privateKey))) >>,
          <<>>, NoSignature, [amountRaw |-> amount])

ApiPost(request) ==
  /\ op = NoOp
  /\ requests' = Append(requests, request)
  /\ op' = [kind |-> request.origin, phase |-> "posted"]
  /\ UNCHANGED <<wallet, storage, nonce, balance, encBalance, ui>>
  /\ OpsUnchanged

ApiEncryptBalance ==
  \E k \in SeedKeys, amount \in HookAmounts :
    ApiPost(ApiBalanceRequest("encryptBalance", deriveAddress(k).value, amount, k))

ApiDecryptBalance ==
  \E k \in SeedKeys, amount \in HookAmounts :
    ApiPost(ApiBalanceRequest("decryptBalance", deriveAddress(k).value, amount, k))

ApiCreatePrivateTransfer ==
  \E k \in SeedKeys, to \in Recipients, amount \in HookAmounts :
    ApiPost(ApiPrivateTransferRequest(deriveAddress(k).value, to, amount, k))

ApiSettle ==
  /\ op.kind \in {"encryptBalance", "decryptBalance", "createPrivateTransfer"}
  /\ op.phase = "posted"
  /\ \E response \in Responses :
       op' = Done(op.kind, response = "ok", IF response = "ok" THEN "" ELSE "failed")
  /\ requests' = <<>>
  /\ UNCHANGED <<wallet, storage, nonce, balance, encBalance, ui>>
  /\ OpsUnchanged

----------------------------------------------------------------------------
(* The operations of the wallet, called one at a time.                     *)

(* The WalletSetup screen alone.                                          *)
NextSetup ==
  \/ HandleConnect
  \/ HandleCreate
  \/ Logout
  \/ OpDone

SpecSetup == Init /\ [][NextSetup]_vars

(* The wallet operations.                                                  *)
NextOps ==
  \/ Login
  \/ Logout
  \/ BalanceFetched
  \/ EncryptedBalanceFetched
  \/ SendTransaction
  \/ SendTransactionSettle
  \/ HandleEncrypt
  \/ HandleDecrypt
  \/ SidebarBalanceResponse
  \/ HandlePrivateTransfer
  \/ SidebarSettle
  \/ EncryptDecryptBalance
  \/ HookBalanceResponse
  \/ HookSettle
  \/ ApiEncryptBalance
  \/ ApiDecryptBalance
  \/ ApiCreatePrivateTransfer
  \/ ApiSettle
  \/ OpDone

SpecOps == Init /\ [][NextOps]_vars

----------------------------------------------------------------------------
(* SendDialog.  The dialog is part of the dashboard, shown while a wallet  *)
(* is connected.  handleConfirm and the sendTransaction it calls belong to *)
(* the render in which Confirm was clicked: they keep that render's        *)
(* wallet, nonce and balance.  The dialog reads a field balance that       *)
(* useWalletBalance does not return, so validateForm never compares the    *)
(* total with the balance.                                                 *)

Small == OCT(1)
Big == OCT(2000)
BelowThreshold == OCT(1000) - 1
AtThreshold == OCT(1000)
RecipientLists ==
  {[i \in 1..n |-> Recipient("octA",
                             CASE i = big -> Big
                               [] i = 3 -> BelowThreshold
                               [] i = 4 -> AtThreshold
                               [] OTHER -> Small,
                             IF i = 1 THEN "hi" ELSE "")] :
     n \in 1..MaxRecipients, big \in {0, 2}}

(* The fee the dialog estimates for one amount, in micro-units.            *)
getFeeForAmount(amount) == IF amount < OCT(1000) THEN 1000 ELSE 3000

validateForm(recipients) ==
  \A i \in 1..Len(recipients) :
    recipients[i].address \in Recipients /\ recipients[i].amount > 0

(* The nonce the confirm screen shows for recipient i (from 0).            *)
ShownNonce(i) == nonce + 1 + i

(* The nonce of a call counts the recipients of the earlier batches; one   *)
(* that counted only within the batch would be TransactionNonceInBatch.    *)
TransactionNonceInBatch(startNonce, overallIndex, batchIndex) == startNonce + batchIndex
TransactionNonce(startNonce, overallIndex, batchIndex) == startNonce + overallIndex + batchIndex

BatchOfOneMore(r) == (r.overallIndex + 1)..Min(r.overallIndex + BATCH_SIZE + 1, Len(r.recipients))
BatchOf(r) == (r.overallIndex + 1)..Min(r.overallIndex + BATCH_SIZE, Len(r.recipients))

(* The call of sendTransaction for the recipient at position j of the list *)
(* (from 1) in the batch that starts after overallIndex recipients.  The   *)
(* call is the one of the render of handleConfirm, with the wallet of that *)
(* render; context is the wallet of the WalletContext when the call is     *)
(* made (history).                                                         *)
SendCall(r, j, now) ==
  LET recipient == r.recipients[j]
      batchIndex == j - 1 - r.overallIndex
      transactionNonce == TransactionNonce(r.startNonce, r.overallIndex, batchIndex)
      out == sendTransaction(r.wallet, r.walletNonce, r.walletBalance,
                             [message |-> IF recipient.message # ""
                                          THEN <<recipient.message>> ELSE <<>>,
                              amount |-> recipient.amount,
                              _nonce |-> <<transactionNonce>>,
                              to |-> recipient.address,
                              isPrivate |-> FALSE],
                             now)
  IN [i |-> j - 1, amount |-> recipient.amount, shown |-> r.shown[j],
      _nonce |-> transactionNonce, walletNonce |-> r.walletNonce, posted |-> out.posted,
      request |-> out.request, settled |-> ~out.posted,
      fee |-> getFeeForAmount(recipient.amount), context |-> wallet]

Batch(r, now) == [k \in 1..Cardinality(BatchOf(r)) |-> SendCall(r, r.overallIndex + k, now)]
PostedBy(calls) == SelectSeq([k \in 1..Len(calls) |-> calls[k].request],
                             LAMBDA request : request # NoRequest)

DialogUnchanged ==
  UNCHANGED <<call, wallet, storage, nonce, balance, encBalance, op, proxy, sidebar>>

(* The model logs in again when the send of the previous dashboard, if    *)
(* any, has ended.                                                         *)
Connect ==
  /\ ~wallet.connected
  /\ ~run.active
  /\ Login

(* The Logout button of the header, which a click reaches while no dialog  *)
(* is open.  The dashboard is unmounted, and the send dialog with it: its  *)
(* state is lost, and a handleConfirm that is still running goes on        *)
(* without a component to update.                                          *)
Disconnect ==
  /\ wallet.connected
  /\ ~dialog.open
  /\ logout([ui EXCEPT !.sendLoading = FALSE])
  /\ dialog' = InitialDialog
  /\ run' = IF run.active THEN [run EXCEPT !.mounted = FALSE] ELSE run
  /\ UNCHANGED <<call, requests, op, sends, proxy, sidebar>>

(* handleOpenChange: the trigger opens the dialog; Escape, the close       *)
(* button or a click outside close it, at any step.  Both reset the form   *)
(* (on closing, 200 ms later).  The results of a send that has ended are   *)
(* dropped with it.  The model does not reopen the dialog while a send is  *)
(* still running.                                                          *)
handleOpenChange ==
  /\ wallet.connected
  /\ \E newOpen \in BOOLEAN :
       /\ newOpen # dialog.open
       /\ newOpen => ~run.active
       /\ dialog' = [InitialDialog EXCEPT !.open = newOpen]
  /\ sends' = IF run.active THEN sends ELSE <<>>
  /\ UNCHANGED <<requests, ui, run>>
  /\ DialogUnchanged

SetRecipients ==
  /\ wallet.connected /\ dialog.open
  /\ dialog.step = "form"
  /\ \E recipients \in RecipientLists :
       /\ recipients # dialog.recipients
       /\ dialog' = [dialog EXCEPT !.recipients = recipients]
  /\ UNCHANGED <<requests, ui, run, sends>>
  /\ DialogUnchanged

handleNext ==
  /\ wallet.connected /\ dialog.open
  /\ dialog.step = "form"
  /\ ~ui.sendLoading
  /\ validateForm(dialog.recipients)
  /\ dialog' = [dialog EXCEPT !.step = "confirm"]
  /\ UNCHANGED <<requests, ui, run, sends>>
  /\ DialogUnchanged

handleBack ==
  /\ wallet.connected /\ dialog.open
  /\ dialog.step = "confirm"
  /\ dialog' = [dialog EXCEPT !.step = "form"]
  /\ UNCHANGED <<requests, ui, run, sends>>
  /\ DialogUnchanged

(* Confirm is clicked: the nonces start at nonce + 1, and the calls of the *)
(* first batch run up to their fetch.  The model follows one handleConfirm *)
(* at a time.                                                              *)
handleConfirm ==
  /\ wallet.connected /\ dialog.open
  /\ dialog.step = "confirm"
  /\ ~run.active
  /\ \E now \in ClockInputs :
       LET r == [wallet |-> wallet, active |-> TRUE, mounted |-> TRUE,
                 recipients |-> dialog.recipients,
                 shown |-> [j \in 1..Len(dialog.recipients) |-> ShownNonce(j - 1)],
                 walletNonce |-> nonce, walletBalance |-> balance, startNonce |-> nonce + 1,
                 overallIndex |-> 0]
           calls == Batch(r, now)
       IN /\ run' = r
          /\ sends' = calls
          /\ requests' = requests \o PostedBy(calls)
          /\ ui' = [ui EXCEPT !.sendLoading = @ \/ PostedBy(calls) # <<>>]
  /\ dialog' = [dialog EXCEPT !.step = "sending",
                              !.progress = [sent |-> 0, total |-> Len(dialog.recipients)]]
  /\ DialogUnchanged

(* One call of the batch gets its answer; its finally block clears         *)
(* isLoading (of the component, while it is mounted).                      *)
SendSettle ==
  /\ \E j \in 1..Len(sends) :
       /\ sends[j].posted /\ ~sends[j].settled
       /\ sends' = [sends EXCEPT ![j].settled = TRUE]
       /\ requests' = SelectSeq(requests, LAMBDA request : request # sends[j].request)
  /\ ui' = IF run.mounted THEN [ui EXCEPT !.sendLoading = FALSE] ELSE ui
  /\ UNCHANGED <<dialog, run>>
  /\ DialogUnchanged

(* Promise.allSettled resolves: progress advances by the batch, and either *)
(* the next batch is called or the results are shown.  The state of the    *)
(* dialog is set while its component is mounted.                           *)
BatchSettled ==
  /\ run.active
  /\ \A j \in BatchOf(run) : sends[j].settled
  /\ LET batchLength == Cardinality(BatchOf(run))
         r == [run EXCEPT !.overallIndex = @ + batchLength]
         sent == dialog.progress.sent + batchLength
     IN IF r.overallIndex < Len(r.recipients)
        THEN \E now \in ClockInputs :
               /\ run' = r
               /\ sends' = sends \o Batch(r, now)
               /\ requests' = requests \o PostedBy(Batch(r, now))
               /\ ui' = IF run.mounted
                        THEN [ui EXCEPT !.sendLoading = @ \/ PostedBy(Batch(r, now)) # <<>>]
                        ELSE ui
               /\ dialog' = IF run.mounted THEN [dialog EXCEPT !.progress.sent = sent]
                            ELSE dialog
        ELSE /\ run' = NoRun
             /\ dialog' = IF run.mounted
                          THEN [dialog EXCEPT !.progress.sent = sent, !.step = "result",
                                              !.results = [j \in 1..Len(sends) |-> sends[j].i]]
                          ELSE dialog
             /\ UNCHANGED <<sends, requests, ui>>
  /\ DialogUnchanged

(* Close on the result screen: resetDialog.                                *)
handleClose ==
  /\ dialog.open
  /\ dialog.step = "result"
  /\ dialog' = InitialDialog
  /\ sends' = <<>>
  /\ UNCHANGED <<requests, ui, run>>
  /\ DialogUnchanged

Next ==
  \/ Connect
  \/ Disconnect
  \/ handleOpenChange
  \/ BalanceFetched
  \/ SetRecipients
  \/ handleNext
  \/ handleBack
  \/ handleConfirm
  \/ SendSettle
  \/ BatchSettled
  \/ handleClose

Spec == Init /\ [][Next]_vars

----------------------------------------------------------------------------
(* Claims about the requests the operations post, checked under SpecOps.   *)

Range(seq) == {seq[i] : i \in 1..Len(seq)}
Posted == Range(requests)
PlainTransfers ==
  {r \in Posted : r.origin = "sendTransaction" /\ r.endpoint = "/send-tx"}
SignedFields == <<"from", "to_", "amount", "nonce", "ou", "timestamp">>
Entry(k, v) == JStr(k) \o ":" \o v
MessageGiven(r) == TruthyString(r.in.p.message)

(* C1: the bytes a plain transfer signs are the serialization of from,     *)
(* to_, amount, nonce, ou, timestamp in that order, never the message; the *)
(* payload sent is these fields with the same values, then the message     *)
(* when a non-empty one was given, then signature and public_key.          *)
C1_PlainTransferSignedFields ==
  \A r \in PlainTransfers :
    LET signed == SubSeq(r.payload, 1, Len(SignedFields)) IN
    /\ Keys(signed) = SignedFields
    /\ r.signedText = JSONStringify(signed)
    /\ \A i \in 1..Len(r.signedText) : r.signedText[i] = Entry(signed[i].k, signed[i].v)
    /\ r.signature = signMessage(r.signedText, r.in.wallet.privateKey).value
    /\ Keys(r.payload) =
         SignedFields \o (IF MessageGiven(r) THEN <<"message">> ELSE <<>>)
                      \o <<"signature", "public_key">>
    /\ MessageGiven(r) => Get(r.payload, "message") = JStr(r.in.p.message[1])
    /\ Get(r.payload, "signature") = JStr(B64Text(r.signature))
    /\ Get(r.payload, "public_key") = JStr(B64Text(r.in.wallet.publicKey))
    /\ Get(r.payload, "from") = JStr(AddressText(r.in.wallet.address))
    /\ Get(r.payload, "to_") = JStr(r.in.p.to)
    /\ Get(r.payload, "amount") = JStr(ToString(r.in.p.amount))

C1_Witness ==
  \E r \in PlainTransfers :
    /\ MessageGiven(r)
    /\ Has(r.payload, "message")
    /\ Len(r.signedText) = Len(SignedFields)

(* The request the same call posts when its message is replaced by m.      *)
WithMessage(r, m) ==
  sendTransaction(r.in.wallet, r.in.walletNonce, r.in.walletBalance,
                  [r.in.p EXCEPT !.message = m], r.in.now).request

(* C2: a plain transfer with a non-empty message and the transfer with the *)
(* same from, to_, amount, nonce, ou and timestamp but no message sign the *)
(* same bytes and carry the same signature; their payloads differ, only    *)
(* the first having a message field.                                       *)
C2_MessageExcludedFromSignature ==
  \A r \in PlainTransfers :
    MessageGiven(r) =>
      LET bare == WithMessage(r, <<>>) IN
      /\ r = WithMessage(r, r.in.p.message)
      /\ \A k \in Range(SignedFields) : Get(bare.payload, k) = Get(r.payload, k)
      /\ bare.signedText = r.signedText
      /\ bare.signature = r.signature
      /\ bare.payload # r.payload
      /\ Has(r.payload, "message") /\ ~Has(bare.payload, "message")
      /\ bare.payload = Delete(r.payload, "message")

C2_Witness ==
  \E r \in PlainTransfers :
    /\ MessageGiven(r)
    /\ WithMessage(r, <<>>).payload # r.payload
    /\ WithMessage(r, <<>>).signature = r.signature

PrivateTransfers ==
  {r \in Posted : /\ r.endpoint = "/private_transfer"
                  /\ r.origin \in {"handlePrivateTransfer", "sendTransaction"}}
Unsigned == {"from_private_key", "message", "signature", "public_key"}
Stripped(payload) == SelectSeq(payload, LAMBDA f : f.k \notin Unsigned)

(* C3: the signature of a private transfer is over the serialization of    *)
(* from, to, amount, timestamp, nonce exactly as the payload carries them: *)
(* the payload without from_private_key, message, signature and public_key *)
(* serializes to the signed bytes; from_private_key is sent, not signed.   *)
C3_PrivateTransferSignedAsSent ==
  \A r \in PrivateTransfers :
    /\ Keys(Stripped(r.payload)) = <<"from", "to", "amount", "timestamp", "nonce">>
    /\ JSONStringify(Stripped(r.payload)) = r.signedText
    /\ Has(r.payload, "from_private_key")
    /\ \A i \in 1..Len(r.signedText) :
         r.signedText[i] # Entry("from_private_key", Get(r.payload, "from_private_key"))

BalanceRequests ==
  {r \in Posted : r.method = "POST" /\ r.endpoint \in {"/encrypt_balance", "/decrypt_balance"}}

(* C4: every request to /encrypt_balance or /decrypt_balance, whichever    *)
(* code builds it, carries an encrypted_data envelope and a signature over *)
(* {address, amount, new_balance, timestamp} with the amount and the       *)
(* timestamp that are sent.                                                *)
C4_BalanceRequestSignedAndEnveloped ==
  \A r \in BalanceRequests :
    /\ Has(r.payload, "encrypted_data")
    /\ Has(r.payload, "signature")
    /\ Has(r.payload, "timestamp")
    /\ Get(r.payload, "amount") = JStr(ToString(r.in.amountRaw))
    /\ Get(r.payload, "signature") = JStr(B64Text(r.signature))
    /\ r.signedText =
         << Entry("address", Get(r.payload, "address")),
            Entry("amount", JNum(r.in.amountRaw)),
            Entry("new_balance", JNum(r.in.newBalance)),
            Entry("timestamp", Get(r.payload, "timestamp")) >>

SendRequests == {r \in Posted : r.origin = "sendTransaction"}

(* C6: when the caller passes _nonce, whatever integer it is, 0 included,  *)
(* the nonce signed and sent is that value; the wallet nonce plus one is   *)
(* used only when no _nonce is passed.                                     *)
C6_PassedNonceIsSigned ==
  \A r \in SendRequests :
    LET expected == IF r.in.p._nonce # <<>> THEN r.in.p._nonce[1] ELSE r.in.walletNonce + 1
    IN /\ Get(r.payload, "nonce") = JNum(expected)
       /\ Entry("nonce", JNum(expected)) \in Range(r.signedText)

----------------------------------------------------------------------------
(* Claims about the send dialog, checked under Spec.                       *)

(* C5: in a send started by handleConfirm with wallet nonce n, the call    *)
(* for recipient i (from 0, counted across the batches of 5) is given      *)
(* nonce n + 1 + i before sendTransaction runs, the nonce the confirm      *)
(* screen showed for it; what that call signs and sends carries the same   *)
(* nonce, so the nonces of one send increase by one, without gap or reuse. *)
C5_BatchNonces ==
  \A j \in 1..Len(sends) :
    LET send == sends[j] IN
    /\ send.i = j - 1
    /\ send._nonce = send.walletNonce + 1 + send.i
    /\ send._nonce = send.shown
    /\ j > 1 => (send._nonce = sends[j - 1]._nonce + 1
                 /\ send.walletNonce = sends[j - 1].walletNonce)
    /\ send.posted =>
         /\ Get(send.request.payload, "nonce") = JNum(send.walletNonce + 1 + send.i)
         /\ Entry("nonce", JNum(send.walletNonce + 1 + send.i))
              \in Range(send.request.signedText)

C5_Witness ==
  /\ Len(sends) > BATCH_SIZE
  /\ sends[BATCH_SIZE + 1].posted
  /\ sends[1].walletNonce > 0
  /\ nonce # sends[1].walletNonce

----------------------------------------------------------------------------
(* Claims about lib/crypto.ts, checked under SpecCrypto.                   *)

Accepted(k) == k.wf /\ k.len \in {32, 64}

(* C7: validatePrivateKey returns true exactly when the decoded key is 32  *)
(* or 64 bytes long; for every other decoded length and for input that is  *)
(* not Base64 it throws; it never returns false.                           *)
C7_KeyLengthGate ==
  call.op = "validatePrivateKey" =>
    /\ Accepted(call.key) => (~call.out.thrown /\ call.out.value = TRUE)
    /\ ~Accepted(call.key) => call.out.thrown
    /\ ~call.out.thrown => call.out.value = TRUE

C7_Witness ==
  /\ call.op = "validatePrivateKey"
  /\ call.key.wf /\ call.key.len = 33
  /\ call.out.thrown

(* C8: getKeyPair fails for every key validatePrivateKey rejects and       *)
(* returns a key pair for every key it accepts, 64-byte keys included, so  *)
(* that derivePublicKey and deriveAddress succeed on every accepted key.   *)
C8_GetKeyPairFollowsValidation ==
  call.op = "getKeyPair" =>
    /\ validatePrivateKey(call.key).thrown => (call.out.thrown /\ call.out2.thrown)
    /\ ~validatePrivateKey(call.key).thrown =>
         /\ ~call.out.thrown /\ ~call.out2.thrown
         /\ ~call.publicKey.thrown /\ ~call.address.thrown

(* C9: for signature and public key that are well-formed Base64, whatever  *)
(* their decoded lengths, verifySignature returns a boolean; it throws     *)
(* only when one of them is not valid Base64.                              *)
C9_VerifyThrowsOnlyOnBadBase64 ==
  call.op = "verifySignature" =>
    (call.out.thrown <=> (~call.signature.wf \/ ~call.publicKey.wf))

(* C10: verifySignature(m, signMessage(m, k), derivePublicKey(k)) is true, *)
(* and it is false when exactly one of m, the signature and the public key *)
(* is replaced by a different value of the same length.                    *)
C10_SignVerifyRoundTrip ==
  call.op = "signThenVerify" =>
    LET sameM == call.message2 = call.message
        sameS == call.signature2 = call.signature
        sameP == call.publicKey2 = call.publicKey
        replaced == (IF sameM THEN 0 ELSE 1) + (IF sameS THEN 0 ELSE 1)
                    + (IF sameP THEN 0 ELSE 1)
    IN /\ Len(call.message2) = Len(call.message)
       /\ B64Length(call.signature2) = B64Length(call.signature)
       /\ B64Length(call.publicKey2) = B64Length(call.publicKey)
       /\ replaced = 0 => (~call.out.thrown /\ call.out.value = TRUE)
       /\ replaced = 1 => (~call.out.thrown /\ call.out.value = FALSE)

(* The remainder of an address decodes to a hash: every character is in    *)
(* the alphabet and the bytes decoded are 32.                              *)
DecodesToHash(str) ==
  /\ \A i \in 1..Len(str) : \E j \in 1..Len(ALPHABET) : str[i] = ALPHABET[j]
  /\ Len(base58Decode(str).value) = HashLength

(* C11: validateAddress never throws; it returns true exactly when the     *)
(* string starts with "oct" and the rest Base58-decodes to 32 bytes, and   *)
(* false otherwise, also when the rest cannot be decoded.                  *)
C11_ValidateAddressTotal ==
  call.op = "validateAddress" =>
    /\ ~call.out.thrown
    /\ call.out.value \in BOOLEAN
    /\ call.out.value = TRUE <=>
         /\ Len(call.address) >= 3
         /\ call.address[1] = "o" /\ call.address[2] = "c" /\ call.address[3] = "t"
         /\ DecodesToHash(Slice(call.address, 3))

C11_Witness ==
  /\ call.op = "validateAddress"
  /\ StartsWith(call.address, Oct)
  /\ base58Decode(Slice(call.address, 3)).thrown
  /\ call.out = Ok(FALSE)

(* C12: for every key deriveAddress accepts, both definitions of           *)
(* deriveAddress return the same address, the same on every call, and      *)
(* validateAddress is true of the string returned.                         *)
C12_DerivedAddressIsValid ==
  call.op = "deriveAddress" =>
    (~call.out.thrown =>
       /\ call.out = deriveAddress(call.key)
       /\ call.out2 = call.out
       /\ call.address = AddressString(deriveAddress(call.key).value)
       /\ call.valid = Ok(TRUE))

C12_Witness ==
  /\ call.op = "deriveAddress"
  /\ ~call.out.thrown
  /\ DigestBytes(call.out.value.hash)[1] = 0
  /\ call.valid = Ok(TRUE)

----------------------------------------------------------------------------
(* Claims about balance envelopes, checked under SpecOps.                  *)

EnvelopeRequests == {r \in BalanceRequests : Has(r.payload, "encrypted_data")}
SeedEncryptionKey(privateKeyB64) == Sha256(Salted(decodeBase64(privateKeyB64).value))

(* C13: wherever an envelope is produced, its key is SHA256 of the salt    *)
(* followed by the decoded bytes of the private key, and for the key of    *)
(* the wallet the sidebar's and the hook's deriveEncryptionKey agree.      *)
C13_EnvelopeKeyFromSeedBytes ==
  \A r \in EnvelopeRequests :
    LET privateKey == r.in.wallet.privateKey IN
    /\ Get(r.payload, "encrypted_data") =
         JStr(EnvelopeText(Envelope(SeedEncryptionKey(privateKey), r.in.newBalance)))
    /\ SidebarDeriveEncryptionKey(privateKey) = deriveEncryptionKey(privateKey)

EnvelopeKeys(privateKeyB64) ==
  {SidebarDeriveEncryptionKey(privateKeyB64), deriveEncryptionKey(privateKeyB64)}

----------------------------------------------------------------------------
(* Claims about the fee tier, checked under Spec.                          *)

(* C15: the ou of a plain transfer is "1" when its amount is below         *)
(* 1000 OCT (999.999999 included) and "3" when it is 1000 OCT or more      *)
(* (exactly 1000 included), whatever the other fields; the fee the dialog  *)
(* estimates for the recipient is 0.001 OCT with ou "1" and 0.003 OCT      *)
(* with ou "3".                                                            *)
C15_FeeTier ==
  \A j \in 1..Len(sends) :
    LET send == sends[j] IN
    /\ send.fee = IF send.amount < 1000 * MU_FACTOR THEN 1000 ELSE 3000
    /\ send.posted =>
         LET ou == Get(send.request.payload, "ou") IN
         /\ Get(send.request.payload, "amount") = JStr(ToString(send.amount))
         /\ ou = IF send.amount <= 999999999 THEN JStr("1") ELSE JStr("3")
         /\ Entry("ou", ou) \in Range(send.request.signedText)
         /\ (ou = JStr("1")) <=> (send.fee = 1000)
         /\ (ou = JStr("3")) <=> (send.fee = 3000)

C15_Witness ==
  \E j, k \in 1..Len(sends) :
    /\ sends[j].posted /\ sends[j].amount = 999999999
    /\ Get(sends[j].request.payload, "ou") = JStr("1")
    /\ sends[k].posted /\ sends[k].amount = 1000000000
    /\ Get(sends[k].request.payload, "ou") = JStr("3")

----------------------------------------------------------------------------
(* Claims about wallet creation and mnemonic import, checked under         *)
(* SpecCrypto.                                                             *)

(* C16: for every wallet W returned by createWallet, W.private_key_b64 is  *)
(* well-formed Base64 of 32 bytes, and these bytes are the master private  *)
(* key of W's mnemonic, the seed of the key pair, not its 64-byte secret   *)
(* key; derivePrivateKeyFromMnemonic of W's words joined by spaces returns *)
(* the same string, and deriveAddress of it returns W.address.             *)
C16_CreatedKeyIsSeed ==
  call.op = "createWallet" =>
    LET W == call.out
        mnemonic == Join(W.mnemonic, Space)
        master == deriveMasterKey(mnemonicToSeedSync(mnemonic)).masterPrivateKey
        decoded == decodeBase64(W.private_key_b64)
    IN /\ ~decoded.thrown
       /\ decoded.value.len = 32
       /\ decoded.value = master
       /\ decoded.value # keyPairFromSeed(master).value.secretKey
       /\ ~call.imported.thrown
       /\ call.imported.value = W.private_key_b64
       /\ call.address = W.address

(* A wallet was created from 12 words that pass validation, and its        *)
(* address is a valid address of the imported key.                         *)
C16_Witness ==
  /\ call.op = "createWallet"
  /\ Len(call.out.mnemonic) = 12
  /\ validateMnemonic(Join(call.out.mnemonic, Space))
  /\ call.out.signature_valid
  /\ ~call.imported.thrown
  /\ call.address = call.out.address
  /\ validateAddress(call.address).value

----------------------------------------------------------------------------
(* Claims about WalletSetup, checked under SpecSetup.                      *)

(* C17: when handleConnect was given, on the mnemonic tab, a phrase that   *)
(* is not empty and whose trimmed text fails validateMnemonic, then        *)
(* derivePrivateKeyFromMnemonic threw before it computed a seed or a key   *)
(* pair, login was not called, and no wallet is connected or stored.       *)
C17_InvalidMnemonicDerivesNothing ==
  (/\ op.kind = "handleConnect"
   /\ op.activeTab = "mnemonic"
   /\ op.input[1] # <<>>
   /\ ~validateMnemonic(Trim(op.input[1])))
  => /\ Len(op.derivation) = 1
     /\ op.derivation[1].out.thrown
     /\ op.derivation[1].seed = <<>>
     /\ op.derivation[1].keyPair = <<>>
     /\ derivePrivateKeyFromMnemonic(Trim(op.input[1])).thrown
     /\ op.error # ""
     /\ op.login = <<>>
     /\ ~wallet.connected
     /\ storage = NoItem

(* A phrase of 12 listed words with a wrong checksum was refused.          *)
C17_Witness ==
  /\ op.kind = "handleConnect"
  /\ op.activeTab = "mnemonic"
  /\ Len(Split(Trim(op.input[1]), Space)) = 12
  /\ \A i \in 1..12 : WordIndex(Split(Trim(op.input[1]), Space)[i]) >= 0
  /\ mnemonicToEntropy(Trim(op.input[1])).error = "Invalid mnemonic checksum"
  /\ op.login = <<>>
  /\ ui.error = "Failed to derive private key: Invalid mnemonic phrase"
  /\ ~wallet.connected

----------------------------------------------------------------------------
(* Claims about failures inside the signing operations, checked under      *)
(* SpecOps.                                                                *)

SigningOps == {"sendTransaction", "handleEncrypt", "handleDecrypt", "handlePrivateTransfer"}
SignedPosts == {r \in Posted : r.origin \in SigningOps /\ r.method = "POST"}
KeyPairFailure == "Failed to generate key pair"

(* C18: when the key pair cannot be derived inside sendTransaction,        *)
(* handleEncrypt, handleDecrypt or handlePrivateTransfer, the operation    *)
(* ends without success, with the error shown and the loading flags        *)
(* cleared, and no request is left in flight or made afterwards; a wallet  *)
(* whose key pair cannot be derived never has a POST of these operations   *)
(* in flight; and every POST of these operations carries the signature of  *)
(* the text it signed, made with the key pair of the wallet.               *)
C18_FailureSubmitsNothing ==
  /\ \A r \in SignedPosts :
       /\ r.signature # NoSignature
       /\ ~getKeyPair(r.in.wallet.privateKey).thrown
       /\ r.signature =
            encodeBase64(signDetached(TextEncode(r.signedText),
                                      getKeyPair(r.in.wallet.privateKey).value.secretKey).value)
       /\ Get(r.payload, "signature") = JStr(B64Text(r.signature))
  /\ (wallet.connected /\ getKeyPair(wallet.privateKey).thrown) => SignedPosts = {}
  /\ (op.phase = "done" /\ op.kind \in SigningOps /\ op.error = KeyPairFailure)
       => /\ ~op.success
          /\ requests = <<>>
          /\ ~ui.sendLoading /\ ~ui.sidebarLoading
          /\ op.kind # "sendTransaction" => ui.message = KeyPairFailure

(* handleEncrypt has fetched the encrypted balance of a restored wallet    *)
(* whose 64-byte key gives no key pair, and has ended with the error.      *)
C18_Witness ==
  /\ wallet.connected /\ wallet.privateKey = StaleKey
  /\ op.phase = "done" /\ op.kind = "handleEncrypt" /\ op.error = KeyPairFailure
  /\ ui.message = KeyPairFailure

----------------------------------------------------------------------------
(* app/api/proxy/route.ts, POST.  The endpoints of the model are the       *)
(* prefixes the route compares with.  A header that is absent is NoKey.    *)
(* The route answers with a status, or forwards the request upstream with  *)
(* the headers and the body of lines 172-187.                              *)

ALLOWED_ENDPOINTS ==
  {"/balance", "/staging", "/tx", "/private_transactions", "/pending_private_transfers",
   "/view_encrypted_balance"}
PRIVATE_ENDPOINTS ==
  {"/encrypt_balance", "/decrypt_balance", "/private_transfer", "/claim_private_transfer",
   "/send-tx"}

ProxyPOST(request) ==
  LET privateKey == request.auth
      xPrivateKey == request.xkey
      isPrivate == request.endpoint \in PRIVATE_ENDPOINTS
      keyToValidate == IF privateKey # NoKey THEN privateKey ELSE xPrivateKey
      isAllowed == request.endpoint \in ALLOWED_ENDPOINTS \/ isPrivate
  IN IF request.endpoint = ""
     THEN [status |-> 400, forwarded |-> FALSE]
     ELSE IF isPrivate /\ privateKey = NoKey /\ xPrivateKey = NoKey
     THEN [status |-> 401, forwarded |-> FALSE]
     ELSE IF isPrivate /\ validatePrivateKey(keyToValidate).thrown
     THEN [status |-> 401, forwarded |-> FALSE]
     ELSE IF ~isAllowed
     THEN [status |-> 403, forwarded |-> FALSE]
     ELSE [status |-> 0, forwarded |-> TRUE,
           upstream |-> [method |-> request.method, endpoint |-> request.endpoint,
                         xkey |-> IF xPrivateKey # NoKey THEN xPrivateKey ELSE privateKey,
                         body |-> IF request.method # "GET" THEN request.payload ELSE <<>>]]

----------------------------------------------------------------------------
(* The POST handler of the proxy, step by step.  There are two sources of  *)
(* it: src/app/api/proxy/route.ts and the one in src/unnamed/part_001.     *)
(* rpcUrl is left out: the target is the default upstream.                 *)

ProxyVersions == {"route.ts", "part_001"}
ContentTypes == {"application/json", "text/plain"}
ProxyEndpoints == ALLOWED_ENDPOINTS \cup PRIVATE_ENDPOINTS \cup {"", "/admin"}
ShortKey == B64(TRUE, Raw(16, 1), 0)
ProxyKeys == {NoKey, FirstSeedKey, Malformed, ShortKey}
ProxyPayloads == {<<>>, << F("transfer_id", JStr("7")) >>}
ProxyInputs ==
  [version : ProxyVersions, contentType : ContentTypes, endpoint : ProxyEndpoints,
   method : {"GET", "POST"}, auth : ProxyKeys, xkey : ProxyKeys, payload : ProxyPayloads]

(* NextResponse.json: the status and the fields of the body.               *)
Reply(status, error, message, data) ==
  [error |-> error, message |-> message, status |-> status, data |-> data]
Thrown(name, message) == [message |-> message, name |-> name]

(* What the upstream may do with one fetch: answer OK with a body that is  *)
(* JSON or not, answer with an error status and an error text or none,     *)
(* fail on the network, or be aborted by the 15 s timer.                   *)
UpstreamOutcomes ==
  {[error |-> "", kind |-> "response", status |-> 200, ok |-> TRUE, json |-> j] :
     j \in BOOLEAN}
  \cup {[error |-> "boom", kind |-> "response", status |-> 500, ok |-> FALSE, json |-> TRUE],
        [error |-> "", kind |-> "response", status |-> 404, ok |-> FALSE, json |-> TRUE],
        [error |-> "", kind |-> "network", status |-> 0, ok |-> FALSE, json |-> FALSE],
        [error |-> "", kind |-> "abort", status |-> 0, ok |-> FALSE, json |-> FALSE]}
NetworkError == Thrown("TypeError", "fetch failed")
AbortError == Thrown("AbortError", "This operation was aborted")
SyntaxError == Thrown("SyntaxError", "Unexpected token")
Rejection(outcome) == IF outcome.kind = "abort" THEN AbortError ELSE NetworkError

(* The request sent upstream: fetchOptions.                                *)
Upstream(in, key) ==
  [method |-> in.method, endpoint |-> in.endpoint, xkey |-> key,
   body |-> IF in.method # "GET" THEN in.payload ELSE <<>>]

(* The handler up to its first fetch: it answers, or goes on to fetch.     *)
Answered(reply) == [upstream |-> <<>>, reply |-> <<reply>>]
Forwarded(upstream) == [upstream |-> <<upstream>>, reply |-> <<>>]

RouteChecks(in) ==
  LET privateKey == in.auth
      xPrivateKey == in.xkey
      isPrivate == in.endpoint \in PRIVATE_ENDPOINTS
      keyToValidate == IF privateKey # NoKey THEN privateKey ELSE xPrivateKey
      isAllowed == in.endpoint \in ALLOWED_ENDPOINTS \/ isPrivate
  IN IF in.contentType # "application/json"
     THEN Answered(Reply(415, "Unsupported Media Type", "", ""))
     ELSE IF in.endpoint = ""
     THEN Answered(Reply(400, "Missing or invalid endpoint", "", ""))
     ELSE IF isPrivate /\ privateKey = NoKey /\ xPrivateKey = NoKey
     THEN Answered(Reply(401, "Private key required for this endpoint", "", ""))
     ELSE IF isPrivate /\ validatePrivateKey(keyToValidate).thrown
     THEN Answered(Reply(401, "Invalid private key format", "", ""))
     ELSE IF ~isAllowed
     THEN Answered(Reply(403, "Unauthorized endpoint", "", ""))
     ELSE Forwarded(Upstream(in, IF xPrivateKey # NoKey THEN xPrivateKey ELSE privateKey))

Part001Checks(in) ==
  LET privateKey == in.auth
      isAllowed == in.endpoint \in ALLOWED_ENDPOINTS
      isPrivate == in.endpoint \in PRIVATE_ENDPOINTS
  IN IF in.contentType # "application/json"
     THEN Answered(Reply(415, "Unsupported Media Type", "", ""))
     ELSE IF in.endpoint = ""
     THEN Answered(Reply(400, "Missing or invalid endpoint", "", ""))
     ELSE IF ~isAllowed /\ ~isPrivate
     THEN Answered(Reply(403, "Unauthorized endpoint", "", ""))
     ELSE IF isPrivate /\ privateKey = NoKey
     THEN Answered(Reply(401, "Private key required for this endpoint", "", ""))
     ELSE Forwarded(Upstream(in, privateKey))

ProxyChecks(in) == IF in.version = "route.ts" THEN RouteChecks(in) ELSE Part001Checks(in)

(* The outer catch of the handler.                                         *)
ProxyCaught(error) ==
  IF error.name = "AbortError"
  THEN Reply(504, "Request timeout", "The request took too long to complete", "")
  ELSE Reply(500, "Proxy error", error.message, "")

ErrorText(response) == IF response.error # "" THEN response.error ELSE "Request failed"
Data(response) == IF response.json THEN Reply(200, "", "", "data") ELSE ProxyCaught(SyntaxError)

(* The handler after its retry loop, with the response the loop left.      *)
RouteAfterLoop(in, response) ==
  IF in.endpoint = "/pending_private_transfers" /\ response.status = 500
  THEN Reply(200, "", "", "{pending_transfers:[]}")
  ELSE IF ~response.ok
  THEN Reply(response.status, ErrorText(response), "", "")
  ELSE Data(response)

Part001AfterLoop(in, response) ==
  IF ~response.ok
  THEN IF in.endpoint = "/pending_private_transfers" /\ response.status = 500
       THEN Reply(200, "", "", "[]")
       ELSE Reply(response.status, ErrorText(response), "", "")
  ELSE Data(response)

maxRetries == 2

(* One turn of the retry loop on the outcome of its fetch: the loop goes   *)
(* on (reply is empty), or the handler answers.                            *)
RouteTurnOneMore(in, retryCount, outcome) ==
  IF outcome.kind = "response"
  THEN IF outcome.ok THEN <<RouteAfterLoop(in, outcome)>>
       ELSE IF retryCount = maxRetries + 1
       THEN <<ProxyCaught(Thrown("Error", ErrorText(outcome)))>>
       ELSE <<>>
  ELSE IF retryCount = maxRetries + 1 THEN <<ProxyCaught(Rejection(outcome))>> ELSE <<>>

RouteTurn(in, retryCount, outcome) ==
  IF outcome.kind = "response"
  THEN IF outcome.ok THEN <<RouteAfterLoop(in, outcome)>>
       ELSE IF retryCount = maxRetries
       THEN <<ProxyCaught(Thrown("Error",
                                 IF outcome.error # "" THEN outcome.error
                                 ELSE "Request failed with status "
                                      \o ToString(outcome.status)))>>
       ELSE <<>>
  ELSE IF retryCount = maxRetries THEN <<ProxyCaught(Rejection(outcome))>> ELSE <<>>

Part001Turn(in, retryCount, outcome) ==
  IF outcome.kind = "response"
  THEN <<Part001AfterLoop(in, outcome)>>
  ELSE IF retryCount = maxRetries THEN <<ProxyCaught(Rejection(outcome))>> ELSE <<>>

ProxyTurn(in, retryCount, outcome) ==
  IF in.version = "route.ts" THEN RouteTurn(in, retryCount, outcome)
  ELSE Part001Turn(in, retryCount, outcome)

ProxyUnchanged ==
  UNCHANGED <<call, wallet, storage, nonce, balance, encBalance, requests, op, ui, dialog, run,
              sends, sidebar>>

(* A request arrives: the handler runs up to its answer or its first       *)
(* fetch.  attempts counts the calls of fetch, replies the answers given.  *)
ProxyReceive ==
  /\ proxy.phase = "idle"
  /\ \E in \in ProxyInputs :
       LET checks == ProxyChecks(in) IN
       proxy' = [phase |-> IF checks.reply # <<>> THEN "replied" ELSE "fetching",
                 in |-> in, upstream |-> checks.upstream, reply |-> checks.reply,
                 retryCount |-> 0, attempts |-> 0, last |-> <<>>, aborted |-> FALSE,
                 replies |-> Len(checks.reply)]
  /\ ProxyUnchanged

(* fetch settles.  Once the timer has aborted the controller, every fetch  *)
(* with its signal is aborted.                                             *)
ProxyFetch ==
  /\ proxy.phase = "fetching"
  /\ \E outcome \in UpstreamOutcomes :
       /\ proxy.aborted => outcome.kind = "abort"
       /\ LET reply == ProxyTurn(proxy.in, proxy.retryCount, outcome) IN
          proxy' = [proxy EXCEPT !.phase = IF reply # <<>> THEN "replied" ELSE "fetching",
                                 !.reply = reply,
                                 !.retryCount = IF reply # <<>> THEN @ ELSE @ + 1,
                                 !.attempts = @ + 1,
                                 !.last = <<outcome>>,
                                 !.aborted = outcome.kind = "abort",
                                 !.replies = @ + Len(reply)]
  /\ ProxyUnchanged

(* The answer is sent and the handler is done.                             *)
ProxyDone ==
  /\ proxy.phase = "replied"
  /\ proxy' = NoProxy
  /\ ProxyUnchanged

NextProxy ==
  \/ ProxyReceive
  \/ ProxyFetch
  \/ ProxyDone

SpecProxy == Init /\ [][NextProxy]_vars

(* Every fetch settles: the timer set on REQUEST_TIMEOUT aborts the        *)
(* controller whose signal each fetch carries, and the sleeps between the  *)
(* attempts end.  An answer given is sent.                                 *)
SpecProxyLive == SpecProxy /\ WF_vars(ProxyFetch) /\ WF_vars(ProxyDone)

----------------------------------------------------------------------------
(* Sidebar: its dialogs and its handlers side by side.  A dialog is modal: *)
(* one is open at a time, and it can be closed (Escape, the close button,  *)
(* a click outside) while its handler is running.  handleEncrypt,          *)
(* handleDecrypt and handlePrivateTransfer are followed from the click     *)
(* that passes their checks to their end; their requests are those of      *)
(* SidebarStart and HandlePrivateTransfer.  loading is ui.sidebarLoading.  *)

SidebarDialogs == {"encrypt", "decrypt", "privateTransfer", "claim"}
DialogOf(kind) ==
  CASE kind = "handleEncrypt" -> "encrypt"
    [] kind = "handleDecrypt" -> "decrypt"
    [] kind = "handlePrivateTransfer" -> "privateTransfer"
    [] OTHER -> "claim"
ButtonHandlers == {"handleEncrypt", "handleDecrypt", "handlePrivateTransfer"}
(* The ids of the transfers the server may list as pending.                *)
TransferIds == {"7", "8"}
Running(kind, phase, request) == [kind |-> kind, phase |-> phase, request |-> request]
Without(seq, i) == SubSeq(seq, 1, i - 1) \o SubSeq(seq, i + 1, Len(seq))

ClaimRequest(w, claimId) ==
  Request("handleClaim", "POST", "/claim_private_transfer", w.privateKey, w.privateKey,
          << F("recipient_address", JStr(AddressText(w.address))),
             F("private_key", JStr(B64Text(w.privateKey))),
             F("transfer_id", JStr(claimId)) >>,
          <<>>, NoSignature, <<>>)
PendingRequest(w) ==
  Request("loadPendingTransfers", "GET", "/pending_private_transfers", w.privateKey,
          w.privateKey, <<>>, <<>>, NoSignature, <<>>)

SidebarUnchanged ==
  UNCHANGED <<call, wallet, storage, nonce, balance, encBalance, requests, op, dialog, run,
              sends, proxy>>

(* loadPendingTransfers up to its fetch.                                   *)
loadPendingTransfers(side, phase) ==
  /\ ui' = [ui EXCEPT !.sidebarLoading = TRUE, !.message = ""]
  /\ sidebar' = [side EXCEPT !.running = Append(@, Running("loadPendingTransfers", phase,
                                                            PendingRequest(wallet)))]

(* onOpenChange of a dialog; the one of the claim dialog loads the pending *)
(* transfers when it opens.                                                *)
SidebarOpenChange ==
  /\ wallet.connected
  /\ \E d \in SidebarDialogs, open \in BOOLEAN :
       /\ sidebar.open = IF open THEN "none" ELSE d
       /\ LET side == [sidebar EXCEPT !.open = IF open THEN d ELSE "none"] IN
          IF d = "claim" /\ open
          THEN /\ Len(sidebar.running) < MaxRunning
               /\ loadPendingTransfers(side, "alone")
          ELSE /\ sidebar' = side
               /\ UNCHANGED ui
  /\ SidebarUnchanged

(* The button of an open dialog is clicked; it is disabled while loading.  *)
(* The handler returns with a message when a check fails, and else sets    *)
(* loading and goes on to its requests.                                    *)
SidebarClick ==
  /\ wallet.connected
  /\ ~ui.sidebarLoading
  /\ \E kind \in ButtonHandlers, refused \in BOOLEAN :
       /\ sidebar.open = DialogOf(kind)
       /\ IF refused
          THEN /\ ui' = [ui EXCEPT !.message = "Please enter an amount"]
               /\ UNCHANGED sidebar
          ELSE /\ Len(sidebar.running) < MaxRunning
               /\ ui' = [ui EXCEPT !.sidebarLoading = TRUE, !.message = ""]
               /\ sidebar' = [sidebar EXCEPT !.running = Append(@, Running(kind, "posted",
                                                                          NoRequest))]
  /\ SidebarUnchanged

(* A handler ends: on success it closes its dialog; handleEncrypt and      *)
(* handlePrivateTransfer clear loading in finally, handleDecrypt in catch. *)
SidebarHandlerEnds ==
  /\ \E i \in 1..Len(sidebar.running), ok \in BOOLEAN :
       LET kind == sidebar.running[i].kind IN
       /\ kind \in ButtonHandlers
       /\ ui' = [ui EXCEPT !.sidebarLoading = IF kind = "handleDecrypt" /\ ok THEN @ ELSE FALSE,
                           !.message = IF ok THEN "Success" ELSE "failed"]
       /\ sidebar' = [sidebar EXCEPT !.running = Without(@, i),
                                     !.open = IF ok /\ @ = DialogOf(kind) THEN "none" ELSE @]
  /\ SidebarUnchanged

(* Claim is clicked on a transfer of the list: setClaimId(transfer.id),    *)
(* then handleClaim() of the render that drew the button, which reads the  *)
(* claimId of that render.  click keeps the transfer clicked last and the  *)
(* request made for it (history).                                          *)
ClaimClick ==
  /\ wallet.connected
  /\ sidebar.open = "claim"
  /\ ~ui.sidebarLoading
  /\ \E id \in sidebar.pendingTransfers :
       LET claimId == sidebar.claimId
           request == ClaimRequest(wallet, claimId)
       IN IF claimId = ""
          THEN /\ ui' = [ui EXCEPT !.message = "Please select a transfer to claim"]
               /\ sidebar' = [sidebar EXCEPT !.claimId = id,
                                             !.click = <<[id |-> id, sent |-> <<>>]>>]
          ELSE /\ Len(sidebar.running) < MaxRunning
               /\ ui' = [ui EXCEPT !.sidebarLoading = TRUE, !.message = ""]
               /\ sidebar' = [sidebar EXCEPT
                                !.claimId = id,
                                !.click = <<[id |-> id, sent |-> <<request>>]>>,
                                !.running = Append(@, Running("handleClaim", "posted",
                                                              request))]
  /\ SidebarUnchanged

(* The answer to the POST of handleClaim.  After an OK answer the balances *)
(* are refreshed and loadPendingTransfers is called; else the error is     *)
(* shown and finally clears loading.                                       *)
ClaimResponse ==
  /\ \E i \in 1..Len(sidebar.running), ok \in BOOLEAN :
       /\ sidebar.running[i].kind = "handleClaim"
       /\ IF ok
          THEN loadPendingTransfers([sidebar EXCEPT !.running = Without(@, i)], "in handleClaim")
          ELSE /\ ui' = [ui EXCEPT !.sidebarLoading = FALSE, !.message = "Claim failed"]
               /\ sidebar' = [sidebar EXCEPT !.running = Without(@, i)]
  /\ SidebarUnchanged

(* The answer to the request of loadPendingTransfers: a list, the 500 of   *)
(* an unknown route (an empty list), or a failure (an empty list and a     *)
(* message); finally clears loading.  Called by handleClaim, handleClaim   *)
(* then clears claimId and, in its finally, loading.                       *)
PendingResponses == {"ok", "Unknown route", "failed"}
PendingTransfersLoaded ==
  /\ \E i \in 1..Len(sidebar.running), response \in PendingResponses,
        listed \in SUBSET TransferIds :
       LET load == sidebar.running[i] IN
       /\ load.kind = "loadPendingTransfers"
       /\ response # "ok" => listed = {}
       /\ ui' = [ui EXCEPT !.sidebarLoading = FALSE,
                           !.message = IF response = "failed" THEN "Failed to load transfers"
                                       ELSE @]
       /\ sidebar' = [sidebar EXCEPT !.running = Without(@, i),
                                     !.pendingTransfers = listed,
                                     !.claimId = IF load.phase = "in handleClaim" THEN "" ELSE @]
  /\ SidebarUnchanged

NextSidebar ==
  \/ SidebarOpenChange
  \/ SidebarClick
  \/ SidebarHandlerEnds
  \/ ClaimClick
  \/ ClaimResponse
  \/ PendingTransfersLoaded

SpecSidebar == Init /\ [][NextSidebar]_vars

----------------------------------------------------------------------------
(* Claims about where the private key goes, checked under SpecOps.         *)

InBody(body, k) == \E i \in 1..Len(body) : body[i].v = JStr(B64Text(k))
ClientSends(r, k) == r.auth = k \/ r.xkey = k \/ InBody(r.payload, k)
ProxySends(r, k) ==
  /\ ProxyPOST(r).forwarded
  /\ ProxyPOST(r).upstream.xkey = k \/ InBody(ProxyPOST(r).upstream.body, k)

(* C19: no request the client posts carries the private key of the         *)
(* connected wallet in its Authorization or X-Private-Key header or in its *)
(* body, and no request the proxy forwards upstream for it carries the key *)
(* in its X-Private-Key header or in its body.                             *)
C19_PrivateKeyNeverSent ==
  wallet.connected =>
    \A r \in Posted : ~ClientSends(r, wallet.privateKey) /\ ~ProxySends(r, wallet.privateKey)

----------------------------------------------------------------------------
(* Claims about the wallet a send is signed for, checked under Spec.       *)

(* C20: every call of sendTransaction that signed and submitted a          *)
(* transaction was made while a wallet was connected, and signed with the  *)
(* key of the wallet connected at that time: none before a login or a      *)
(* restore, and none after a logout with the key of the wallet logged out, *)
(* the later batches of a multi-recipient send included.                   *)
C20_SignedOnlyWhileConnected ==
  \A j \in 1..Len(sends) :
    sends[j].posted =>
      /\ sends[j].context.connected
      /\ sends[j].context.privateKey = sends[j].request.in.wallet.privateKey

----------------------------------------------------------------------------
(* Claims about a rejected login, checked under SpecSetup.                 *)

(* C21: when handleConnect called login and login threw in validation or   *)
(* derivation, the error state holds a message and no wallet is connected. *)
C21_RejectedLoginShowsError ==
  (/\ op.kind = "handleConnect"
   /\ op.login # <<>>
   /\ LoginThrows(op.login[1]))
  => /\ ui.error # ""
     /\ ~wallet.connected

----------------------------------------------------------------------------
(* Claims about the proxy, checked under SpecProxy.                        *)

Serving == proxy.phase # "idle"
WellFormed(in) == in.contentType = "application/json" /\ in.endpoint # ""
RequestKeys(in) == {in.auth, in.xkey} \ {NoKey}
Refused(status) ==
  /\ proxy.phase = "replied"
  /\ proxy.reply[1].status = status
  /\ proxy.upstream = <<>>
  /\ proxy.attempts = 0

(* C22: for a private endpoint the proxy goes upstream only with a key,    *)
(* and the key it puts in X-Private-Key has passed validatePrivateKey; a   *)
(* request for a private endpoint without a key, or with a key that does   *)
(* not pass, is answered 401, and a request for an endpoint in neither     *)
(* list is answered 403, both without a request upstream.                  *)
C22_PrivateEndpointNeedsValidKey ==
  (Serving /\ WellFormed(proxy.in)) =>
    LET in == proxy.in
        isPrivate == in.endpoint \in PRIVATE_ENDPOINTS
    IN /\ (isPrivate /\ proxy.upstream # <<>>)
            => /\ proxy.upstream[1].xkey # NoKey
               /\ ~validatePrivateKey(proxy.upstream[1].xkey).thrown
       /\ (isPrivate /\ (RequestKeys(in) = {}
                          \/ \E k \in RequestKeys(in) : validatePrivateKey(k).thrown))
            => Refused(401)
       /\ (~isPrivate /\ in.endpoint \notin ALLOWED_ENDPOINTS) => Refused(403)

(* The last thing the upstream did was to answer with an error status.     *)
LastNotOK ==
  /\ proxy.phase = "replied"
  /\ proxy.last # <<>>
  /\ proxy.last[1].kind = "response"
  /\ ~proxy.last[1].ok

(* C23: when the last response of the upstream is not OK, the answer of    *)
(* the proxy has the status of that response and its error text; only for  *)
(* /pending_private_transfers answered 500 by the upstream is the answer   *)
(* 200 with an empty list.                                                 *)
C23_UpstreamErrorPassedOn ==
  LastNotOK =>
    LET response == proxy.last[1]
        reply == proxy.reply[1]
    IN IF proxy.in.endpoint = "/pending_private_transfers" /\ response.status = 500
       THEN reply.status = 200 /\ reply.data \in {"[]", "{pending_transfers:[]}"}
       ELSE reply.status = response.status /\ reply.error = ErrorText(response)

AfterOK ==
  /\ proxy.last # <<>>
  /\ proxy.last[1].kind = "response"
  /\ proxy.last[1].ok

(* The handler has called fetch at most maxRetries + 1 times, it is not    *)
(* about to fetch again after an OK response, and it has answered once     *)
(* when it is done and not at all before.                                  *)
AttemptsAndReplies ==
  Serving =>
    /\ proxy.attempts <= maxRetries + 1
    /\ proxy.phase = "fetching" => ~AfterOK /\ proxy.attempts <= maxRetries
    /\ proxy.replies = IF proxy.phase = "replied" THEN 1 ELSE 0
    /\ Len(proxy.reply) = proxy.replies

(* C24: for each request the proxy calls fetch at most 3 times, never      *)
(* again after an OK response, and whatever the upstream does (answers,    *)
(* answers with errors, fails, is timed out) it ends with exactly one      *)
(* answer to the client.                                                   *)
C24_AtMostThreeFetchesOneReply ==
  /\ []AttemptsAndReplies
  /\ (proxy.phase = "fetching") ~> (proxy.phase = "replied")

(* Three fetches, none of them answered OK, and then the one answer.       *)
C24_Witness ==
  /\ proxy.phase = "replied"
  /\ proxy.attempts = maxRetries + 1
  /\ ~AfterOK
  /\ proxy.replies = 1

----------------------------------------------------------------------------
(* Claims about the batches of a send, checked under Spec.                 *)

(* The calls of sendTransaction that wait for the answer to their POST.    *)
InFlight == {j \in 1..Len(sends) : sends[j].posted /\ ~sends[j].settled}
BatchesInTurn ==
  /\ Cardinality(InFlight) <= BATCH_SIZE
  /\ \A j \in InFlight : run.active /\ j \in BatchOf(run)
InRecipientOrder(results, n) == results = [j \in 1..n |-> j - 1]

C26_LoadingWhileAnyInFlight ==
  (run.active => run.mounted) => (ui.sendLoading <=> InFlight # {})

----------------------------------------------------------------------------
(* Claims about the sidebar, checked under SpecSidebar.                    *)

RunningOf(kinds) == {i \in 1..Len(sidebar.running) : sidebar.running[i].kind \in kinds}

(* C27: while a handler of the sidebar is running (encrypt, decrypt,       *)
(* private transfer, claim, or the load of the pending transfers), loading *)
(* is set, which disables the buttons, and at most one encrypt, decrypt,   *)
(* private transfer or claim is running.                                   *)
C27_LoadingWhileHandlerRuns ==
  /\ sidebar.running # <<>> => ui.sidebarLoading
  /\ Cardinality(RunningOf(ButtonHandlers \cup {"handleClaim"})) <= 1

(* C28: the click on Claim of a transfer has sent one request to           *)
(* /claim_private_transfer, with the id of that transfer as transfer_id.   *)
C28_ClaimSendsClickedTransfer ==
  sidebar.click # <<>> =>
    LET click == sidebar.click[1] IN
    /\ Len(click.sent) = 1
    /\ click.sent[1].endpoint = "/claim_private_transfer"
    /\ Get(click.sent[1].payload, "transfer_id") = JStr(click.id)

----------------------------------------------------------------------------
(* Claims about the wallet and its saved item, checked under SpecOps.      *)

(* The wallet in memory and the item of localStorage agree: the item is    *)
(* the text of the connected wallet, or there is no wallet and no item.    *)
Agree == storage = IF wallet.connected THEN WalletItem(wallet) ELSE NoItem

====
